---- MODULE Spec2Model ----
(***************************************************************************)
(* State-machine model of the zenoh-ffi boundary layer                      *)
(* (src/native/zenoh-ffi/src/lib.rs): opaque handles and their wrappers,    *)
(* the Arc<Session> reference count, the blocking bridge (run_blocking,     *)
(* run_blocking_local), the thread-local diagnostic slot LAST_ERROR and     *)
(* the catch_unwind guard of every extern "C" entry point.                  *)
(*                                                                          *)
(* The messaging engine (zenoh) is an opaque collaborator: each engine      *)
(* operation succeeds or fails, chosen nondeterministically.                *)
(***************************************************************************)
EXTENDS Naturals, Sequences, FiniteSets, TLC

\* ------------------------------------------------------------------ bounds

\* Publications the foreign callers make in the event specifications.
MaxPuts == 2

\* Cells in the low region of the heap: 1..MaxAddr.
MaxAddr == 2

\* Distinct connections (Arc<Session> allocations) that may exist: 1..MaxSess.
MaxSess == 2

\* Queries the engine routes to queryables in a run, and the cells in the high
\* region of the heap: MaxAddr+1..MaxAddr+MaxQuery.
MaxQuery == 2

\* Entries in an attachment list.
MaxItems == 2

\* ------------------------------------------------------- program constants

\* ptr::null() / ptr::null_mut()
NULL == 0

\* enum ZenohError
Ok == 0
InvalidConfig == 1
SessionClosed == 2
InvalidKeyExpr == 3
PutFailed == 4
NullPointer == 5
Panic == 254
Unknown == 255

\* The addresses of the heap.  One allocator serves every Box::new and CString::new
\* of the library: wrappers of handles, QueryWrapper boxes and returned strings take
\* their addresses from the same cells, and a freed cell may be handed out again to
\* a box of any kind.
Cells == 1..(MaxAddr + MaxQuery)

\* Two regions of the heap, the low cells and the high cells.  A scenario may follow
\* the runs of the allocator that place its handles in one and its query boxes in
\* the other.
Addr == 1..MaxAddr
QAddr == Cells \ Addr

\* A handle argument in such a scenario: null or an address of the low region.
Ptr == {NULL} \cup Addr
Sess == 1..MaxSess

\* Threads that make boundary calls.  F and G are foreign threads, outside the
\* execution context except while they drive a future of their own; W and V are
\* threads that are driving the execution context (workers running a foreign
\* callback), where Handle::try_current() is Ok.  These are the threads of the
\* program; the thread the bridge spawns for a call made inside the context is
\* named after its caller, see Spawned, and has records of its own from the first
\* reply callback it runs until the future it drives has ended.
Threads == {"F", "G", "W", "V"}

\* The threads on which the engine invokes callbacks.
Workers == {"W", "V"}

\* ------------------------------------------------------------- the state

VARIABLES
    heap,    \* heap[a]: the wrapper at address a: [kind, live, sess]
    stale,   \* stale[a]: the dangling pointer to a the foreign caller kept after destroying it: [kind, sess]
    arc,     \* arc[s]: strong count of the Arc<Session> of connection s
    pc,      \* pc[t]: "idle" | "pending" (operation handed to the bridge) | "ran" (operation finished, call not yet returned)
    cur,     \* cur[t]: the call in progress on t: [op, p, arc (the Arc<Session> clone it holds), on (the connection it ran on)]
    res,     \* res[t]: outcome of the bridged operation: "none" | "ok" | "err" | "err_nul" | "panic"
    err,     \* err[t]: thread t's LAST_ERROR slot, a sequence of messages (<<>> is None)
    ret,     \* ret[t]: the most recent call on t (other than zenoh_last_error) and what it returned: [op, k, v]
    seen,    \* seen[t]: what zenoh_last_error last returned on t (<<>> is NULL)
    helper,  \* helper[t]: the helper thread the bridge spawned for t's call: [st, slot], st "none" | "spawned" | "calling" | "sent" | "died"; while calling, with the view of the reply callback it runs
    proc,    \* "running" | "aborted" (a fault left the boundary, or the allocator aborted)
    ub,      \* "none" | "double_free" | "use_after_free": undefined behaviour that has occurred
    inbox,   \* inbox[a]: events the engine holds for the registration of wrapper a, oldest first
    cb,      \* cb[t]: the foreign callback invocation in progress on thread t: [reg, view], with outer (the call of t whose reply loop entered it on t) or loop (the caller whose reply loop entered it on the spawned thread t)
    log,     \* log[a]: the views the foreign callback of registration a was invoked with, in order
    args,    \* args[t]: the key and buffer arguments of the call in progress on t: [key, pay]
    due,     \* due[a]: the events registration a is owed, as the publishing callers supplied them
    gets,    \* gets[g]: the reply stream g of a get-style call, see NoGet
    qfrom,   \* qfrom[q]: the stream of the get the query boxed at q answers ("none": no query)
    qstat,   \* [routed, delivered, consumed]: queries routed to queryables, handed to callbacks, freed
    rt,      \* static RUNTIME: [state, by, made, cell, on, used], see NoRuntime
    frames   \* frames[r]: the locals key_cstr and payload of the callback closure running on thread r, see NoFrame

\* The variables of the event side: engine queues and callback invocations.
evars == <<inbox, cb, log, args, due, gets, qfrom, qstat, rt, frames>>

\* The threads that have records: the threads of the program and the spawned threads
\* that run, or have run, a reply callback of a call whose future has not ended.
Alive == DOMAIN pc

\* The records f without the one of thread h.
Without(f, h) == IF h \in DOMAIN f THEN [x \in DOMAIN f \ {h} |-> f[x]] ELSE f

vars == <<heap, stale, arc, pc, cur, res, err, ret, seen, helper, proc, ub, inbox, cb, log, args, due, gets, qfrom, qstat, rt, frames>>

\* No callback invocation in progress.
NoView == [key |-> "none", bytes |-> <<>>, kind |-> "none"]

NoCb == [reg |-> 0, view |-> NoView]

\* static RUNTIME before its first use.  state: "uninit" | "running" (a thread is
\* inside the initialiser) | "ready" | "poisoned" (the initialiser panicked); by: that thread; made: how many times
\* Runtime::new() has run; cell: the instance the Lazy holds (0: none); on[t]: the
\* instance the bridge call of t drives its future on (0: none); used: the
\* <<path, instance>> pairs bridge calls have run on; raced: a second thread reached
\* RUNTIME while the initialiser was running.
NoRuntime == [state |-> "uninit", by |-> "none", made |-> 0, cell |-> 0,
              on |-> [t \in Threads |-> 0], used |-> {}, raced |-> FALSE]

NoArgs == [key |-> "none", pay |-> "none"]

\* No get-style call was made.  op: the entry point; st: "none" | "open" (query sent,
\* replies may come) | "done" (the future has ended); open: queries of the call that
\* local queryables hold and have not finalized; peers: answers of remote queryables
\* still to come; q: replies queued for the callback; got: views the callback was
\* invoked with; sent: what the local repliers passed to zenoh_query_reply; call:
\* while the future of the call has not ended, the depth of the call among the
\* get-style calls in progress on its thread (the get made from the reply callback
\* of a get is one deeper), 0 afterwards.
NoGet == [op |-> "none", st |-> "none", open |-> 0, peers |-> 0, q |-> <<>>, got |-> <<>>,
          sent |-> <<>>, call |-> 0]

\* Every get-style call has a reply channel of its own.  The streams of the calls of
\* thread t are named t, Nested(t), Nested(Nested(t)), ...: a call takes the first
\* of them that no earlier call of t still uses.
Nested(t) == t \o "+"

\* The reply streams there are before the first call.
Streams == Threads \cup {Nested(t) : t \in Threads}

\* The thread std::thread::spawn or std::thread::scope starts for a bridged call of t.
Spawned(t) == t \o "/spawned"

\* The threads a callback closure can run on: the threads of the program and the
\* threads spawned for their calls (the thread spawned for the call of a spawned
\* thread gets its locals when it runs its first callback).
Runners == Threads \cup {Spawned(t) : t \in Threads}

\* No closure is running on the thread: the storage of its key_cstr and payload is not
\* allocated.
NoFrame == [key_cstr |-> [live |-> FALSE, text |-> "none"],
            payload |-> [live |-> FALSE, bytes |-> <<>>]]

\* ------------------------------------------------------------ wrappers

\* struct SessionWrapper, PublisherWrapper, ... and the CString of a returned string
Kinds == {"SessionWrapper", "PublisherWrapper", "SubscriberWrapper", "QueryableWrapper",
          "QueryWrapper", "LivelinessTokenWrapper", "QuerierWrapper", "CString"}

\* An address that was never allocated.
FreeCell == [kind |-> "none", live |-> FALSE, sess |-> 0]

\* No dangling pointer to an address is held.
NoStale == [kind |-> "none", sess |-> 0]

\* The wrapper structs that embed an Arc<Session> field (_session / session).
HoldsSession_AllDependents(kind) == kind \in Kinds \ {"QueryWrapper", "CString"}

HoldsSession_OnlyHandle(kind) == kind = "SessionWrapper"

HoldsSession(kind) == kind \in {"SessionWrapper", "PublisherWrapper", "QuerierWrapper"}

\* ------------------------------------------------------- entry points

DeclareOps == {"zenoh_declare_publisher", "zenoh_declare_publisher_with_options",
               "zenoh_declare_subscriber", "zenoh_declare_queryable",
               "zenoh_declare_querier", "zenoh_liveliness_declare_token",
               "zenoh_liveliness_declare_subscriber"}

SessionCodeOps == {"zenoh_put", "zenoh_put_with_encoding", "zenoh_put_with_attachment",
                   "zenoh_delete", "zenoh_get"}

PublisherOps == {"zenoh_publisher_put", "zenoh_publisher_put_with_encoding",
                 "zenoh_publisher_delete"}

QuerierOps == {"zenoh_querier_get"}

\* The operation that takes a query handle and moves it into its future.
QueryOps == {"zenoh_query_reply"}

BridgedOps == {"zenoh_open"} \cup DeclareOps \cup SessionCodeOps \cup PublisherOps \cup QuerierOps
                  \cup QueryOps

DestroyOps == {"zenoh_close", "zenoh_undeclare_publisher", "zenoh_undeclare_subscriber",
               "zenoh_undeclare_queryable", "zenoh_undeclare_querier",
               "zenoh_liveliness_undeclare_token", "zenoh_query_drop", "zenoh_free_string"}

\* The wrapper type an entry point casts its handle argument to.
Target(op) ==
    CASE op \in DeclareOps \cup SessionCodeOps \cup {"zenoh_close", "zenoh_session_zid"} -> "SessionWrapper"
      [] op \in PublisherOps \cup {"zenoh_undeclare_publisher"} -> "PublisherWrapper"
      [] op \in QuerierOps \cup {"zenoh_undeclare_querier"} -> "QuerierWrapper"
      [] op = "zenoh_undeclare_subscriber" -> "SubscriberWrapper"
      [] op = "zenoh_undeclare_queryable" -> "QueryableWrapper"
      [] op = "zenoh_liveliness_undeclare_token" -> "LivelinessTokenWrapper"
      [] op \in {"zenoh_query_drop", "zenoh_query_reply", "zenoh_query_selector"} -> "QueryWrapper"
      [] op = "zenoh_free_string" -> "CString"
      [] OTHER -> "none"

\* Variant of the creates in which the liveliness token is boxed as a subscriber.
Makes_TokenAsSubscriber(op) ==
    CASE op = "zenoh_open" -> "SessionWrapper"
      [] op \in {"zenoh_declare_publisher", "zenoh_declare_publisher_with_options"} -> "PublisherWrapper"
      [] op \in {"zenoh_declare_subscriber", "zenoh_liveliness_declare_subscriber",
                 "zenoh_liveliness_declare_token"} -> "SubscriberWrapper"
      [] op = "zenoh_declare_queryable" -> "QueryableWrapper"
      [] op = "zenoh_declare_querier" -> "QuerierWrapper"
      [] OTHER -> "none"

\* The wrapper type a create operation boxes on success.
Makes(op) ==
    CASE op = "zenoh_open" -> "SessionWrapper"
      [] op \in {"zenoh_declare_publisher", "zenoh_declare_publisher_with_options"} -> "PublisherWrapper"
      [] op \in {"zenoh_declare_subscriber", "zenoh_liveliness_declare_subscriber"} -> "SubscriberWrapper"
      [] op = "zenoh_declare_queryable" -> "QueryableWrapper"
      [] op = "zenoh_declare_querier" -> "QuerierWrapper"
      [] op = "zenoh_liveliness_declare_token" -> "LivelinessTokenWrapper"
      [] OTHER -> "none"

\* Entry points that return a handle (NULL on failure); the others return a ZenohError.
ReturnsPtr(op) == op = "zenoh_open" \/ op \in DeclareOps

\* Which bridge an entry point uses: run_blocking ("detached") or run_blocking_local ("local").
Shape(op) ==
    IF op \in {"zenoh_declare_subscriber", "zenoh_declare_queryable",
               "zenoh_liveliness_declare_subscriber", "zenoh_get", "zenoh_querier_get"}
    THEN "local" ELSE "detached"

\* The message set_error is given when the handle argument is null.
NullMsg(op) ==
    CASE Target(op) = "SessionWrapper" -> "Session pointer is null"
      [] Target(op) = "PublisherWrapper" -> "Publisher pointer is null"
      [] Target(op) = "QuerierWrapper" -> "Querier pointer is null"
      [] OTHER -> "Query pointer is null"

\* The message of the Err arm after the bridge returned (format arguments left out).
FailMsg(op) ==
    CASE op = "zenoh_open" -> "Failed to open session"
      [] op \in {"zenoh_declare_publisher", "zenoh_declare_publisher_with_options"} -> "Failed to declare publisher"
      [] op = "zenoh_declare_subscriber" -> "Failed to declare subscriber"
      [] op = "zenoh_declare_queryable" -> "Failed to declare queryable"
      [] op = "zenoh_declare_querier" -> "Failed to declare querier"
      [] op = "zenoh_liveliness_declare_token" -> "Failed to declare liveliness token"
      [] op = "zenoh_liveliness_declare_subscriber" -> "Failed to declare liveliness subscriber"
      [] op \in {"zenoh_put", "zenoh_publisher_put"} -> "Put failed"
      [] op \in {"zenoh_put_with_encoding", "zenoh_publisher_put_with_encoding"} -> "Put with encoding failed"
      [] op = "zenoh_put_with_attachment" -> "Put with attachment failed"
      [] op = "zenoh_delete" -> "Delete failed"
      [] op = "zenoh_publisher_delete" -> "Publisher delete failed"
      [] op = "zenoh_get" -> "Get query failed"
      [] op = "zenoh_querier_get" -> "Querier get failed"
      [] OTHER -> "Query reply failed"

\* Variant of FailCode in which an ordinary failure is reported with the
\* internal-fault code.
FailCode_AsPanic(op) == Panic

\* Variant of FailCode in which every engine failure is reported as unknown.
FailCode_AllUnknown(op) == Unknown

\* The ZenohError of the Err arm.
FailCode(op) ==
    IF op \in {"zenoh_put", "zenoh_put_with_encoding", "zenoh_put_with_attachment",
               "zenoh_publisher_put", "zenoh_publisher_put_with_encoding"}
    THEN PutFailed ELSE Unknown

\* The message of the Err arm as set_error receives it, format!("...: {}", e): the
\* literal followed by the text of the engine's error e.  r: what the engine
\* answered; "err_nul" is an error whose text holds a NUL byte, which makes the
\* whole message one that holds a NUL byte.
FailText(op, r) == IF r = "err_nul" THEN "nul" ELSE FailMsg(op)

\* The message of the Err arm of catch_unwind.
PanicMsg(op) == "Panic occurred in " \o op

\* ------------------------------------------------------- error channel

\* CString::new(text) is Ok: the text holds no NUL byte ("nul" stands for a text
\* that holds one).
Terminable(text) == text # "nul"

\* fn set_error: *slot = CString::new(msg.to_string()).ok().  The slot becomes
\* Some(msg), whatever it held; a message that holds a NUL byte cannot be made a
\* CString and the slot becomes None.
set_error(slot, msg) == IF Terminable(msg) THEN <<msg>> ELSE <<>>

\* fn clear_error: the slot becomes None.
clear_error(slot) == <<>>

\* ------------------------------------------------------- returned values

\* k: "ptr" (v: NULL or the address), "code" (v: the ZenohError), "void" (v: the
\* argument that was passed), "options", "unwind" (the call did not return: a fault
\* left the boundary), "none" (no call yet).
RetNone == [op |-> "none", k |-> "none", v |-> 0]
RetVoid(op, p) == [op |-> op, k |-> "void", v |-> p]
RetPtr(op, a) == [op |-> op, k |-> "ptr", v |-> a]
RetCode(op, c) == [op |-> op, k |-> "code", v |-> c]
\* enum ZenohCongestionControl
Block == 0
Drop == 1

ZenohCongestionControl == {Block, Drop}

\* enum ZenohPriority
RealTime == 1
InteractiveHigh == 2
InteractiveLow == 3
DataHigh == 4
Data == 5
DataLow == 6
Background == 7

ZenohPriority == {RealTime, InteractiveHigh, InteractiveLow, DataHigh, Data, DataLow, Background}

\* The struct literal of zenoh_publisher_options_default (is_express: the byte of the
\* bool, 0 for false).
PublisherOptions_default == [congestion_control |-> Drop, priority |-> Data, is_express |-> 0]

RetOptions(op) == [op |-> op, k |-> "options", v |-> PublisherOptions_default]
RetUnwind(op) == [op |-> op, k |-> "unwind", v |-> 0]

\* A call failed: it returned a null handle or a status other than Ok.
Failed(r) == (r.k = "ptr" /\ r.v = NULL) \/ (r.k = "code" /\ r.v # Ok)

NoCall == [op |-> "none", p |-> 0, arc |-> 0, on |-> 0]
NoHelper == [st |-> "none", slot |-> <<>>]

\* The helper thread of t's call is inside the foreign reply callback.
Calling(t) == helper[t].st = "calling"

\* Variant in which no thread is ever found inside the execution context.
InCtx_Nowhere(t) == FALSE

\* Handle::try_current().is_ok() on thread t at this moment: t is a thread of the
\* engine, or t runs a foreign callback, which is called from inside a future that
\* the runtime drives (the reply callback of zenoh_get runs inside the future the
\* caller itself drives with RUNTIME.block_on).
InCtx(t) == t \in Workers \/ cb[t] # NoCb

\* ------------------------------------------------------- registrations

\* The registration the declare call of t has made with the engine while the call
\* has not boxed its wrapper yet: the engine holds the closure from inside the
\* bridged future (declare_subscriber(key).callback(..).await), the wrapper is boxed
\* only after the bridge has returned.  It is named by a number beyond the addresses,
\* one for every thread: the number of a spawned thread follows from the number of
\* the thread it was spawned for.
BaseNo(t) == CASE t = "F" -> 1 [] t = "G" -> 2 [] t = "W" -> 3 [] OTHER -> 4

RECURSIVE ThreadNo(_)
ThreadNo(t) ==
    IF t \in Threads THEN BaseNo(t)
    ELSE Cardinality(Threads) + ThreadNo(CHOOSE u \in Alive : Spawned(u) = t)

Early(t) == MaxAddr + MaxQuery + ThreadNo(t)

\* The names of the declare calls in flight on the threads of the program.
EarlyRegs == {MaxAddr + MaxQuery + BaseNo(t) : t \in Threads}

\* The names of the registrations: the address of the boxed wrapper, or the name of
\* the declare call in flight.
Regs == Cells \cup EarlyRegs

\* The thread whose declare call made the registration e.
Owner(e) ==
    IF e \in EarlyRegs THEN CHOOSE t \in Threads : BaseNo(t) = e - MaxAddr - MaxQuery
    ELSE CHOOSE t \in Alive : Early(t) = e

\* The engine holds a registration named a whose wrapper is (or will be) of kind.
Registered(a, kind) ==
    IF a \in Cells THEN heap[a].live /\ heap[a].kind = kind
    ELSE pc[Owner(a)] = "ran" /\ res[Owner(a)] = "ok" /\ Makes(cur[Owner(a)].op) = kind

\* The connection the registration named a was made on.
RegSess(a) == IF a \in Cells THEN heap[a].sess ELSE cur[Owner(a)].on

\* ------------------------------------------------------- allocation

\* Calls in flight that will box a wrapper when they succeed.
Allocating == {t \in Alive : pc[t] # "idle" /\ Makes(cur[t].op) # "none"}

\* Box::new / CString::new: the addresses the allocator may hand out.  Which of the
\* free addresses it returns is not fixed by the code: a freed address may be used
\* again at once or stay unused.
FreeIn(arena) == {a \in arena : ~heap[a].live}
Alloc == FreeIn(Cells)

\* The addresses the allocator hands out in the runs that keep to a given range.
AllocIn(arena) == FreeIn(arena)

\* The heap has a cell of the range for every call in flight that will box a
\* wrapper, and one more.
HasRoom(arena) == Cardinality(FreeIn(arena)) > Cardinality(Allocating)

\* A run of the allocator in which the step's new box is placed in the given range.
Within(arena) == \A a \in Cells : heap'[a].live /\ ~heap[a].live => a \in arena

\* A run of the allocator in which every new Box of an arena takes the lowest free
\* address of that arena.  The scenarios whose claims do not depend on which address a
\* handle has follow such runs.
LowestFirst(arena) ==
    /\ Within(arena)
    /\ \A a \in arena : heap'[a].live /\ ~heap[a].live => \A b \in arena : b < a => heap[b].live

\* Connections no Arc<Session> refers to.
FreeSess == {s \in Sess : arc[s] = 0 /\ \A t \in Alive : cur[t].arc # s}

\* zenoh_open calls in flight, each of which will need a connection.
Opening == {t \in Alive : pc[t] # "idle" /\ cur[t].op = "zenoh_open"}

NewSess == CHOOSE s \in FreeSess : \A r \in FreeSess : s <= r

\* The connection of s is open as long as one Arc<Session> to it exists.
ConnOpen(s) == s \in Sess /\ arc[s] > 0

\* Arc::clone / drop of an Arc<Session> (s = 0: no Arc involved).
ArcClone(a, s) == IF s \in Sess THEN [a EXCEPT ![s] = a[s] + 1] ELSE a

ArcDrop(a, s) == IF s \in Sess /\ a[s] > 0 THEN [a EXCEPT ![s] = a[s] - 1] ELSE a

\* ------------------------------------------------------- shared call paths

\* A fault raised outside catch_unwind leaves the extern "C" function by unwinding.
Unwind(t, op) ==
    /\ proc' = "aborted"
    /\ ret' = [ret EXCEPT ![t] = RetUnwind(op)]
    /\ UNCHANGED <<heap, stale, arc, pc, cur, res, err, seen, helper, ub>>

\* clear_error(); ... set_error(msg); return r  -- a validation failure inside the guard.
FailNow(t, r, msg) ==
    /\ err' = [err EXCEPT ![t] = set_error(clear_error(err[t]), msg)]
    /\ ret' = [ret EXCEPT ![t] = r]
    /\ UNCHANGED <<heap, stale, arc, pc, cur, res, seen, helper, proc, ub>>

\* clear_error(); validation passed; the operation is handed to the bridge.  Inside
\* the execution context the bridge spawns a helper thread with its own LAST_ERROR.
EnterBridge(t, op, p, s, u) ==
    /\ err' = [err EXCEPT ![t] = clear_error(err[t])]
    /\ pc' = [pc EXCEPT ![t] = "pending"]
    /\ cur' = [cur EXCEPT ![t] = [op |-> op, p |-> p, arc |-> s, on |-> 0]]
    /\ helper' = [helper EXCEPT ![t] = IF InCtx(t) THEN [st |-> "spawned", slot |-> <<>>] ELSE NoHelper]
    /\ arc' = ArcClone(arc, s)
    /\ ub' = u
    /\ UNCHANGED <<heap, stale, res, ret, seen, proc>>

\* Memory that was freed is read or freed again and the process dies on it
\* (allocator abort, segmentation fault).
Crash(t, op, u) ==
    /\ proc' = "aborted"
    /\ ub' = u
    /\ ret' = [ret EXCEPT ![t] = RetUnwind(op)]
    /\ UNCHANGED <<heap, stale, arc, pc, cur, res, err, seen, helper>>

\* ------------------------------------------------------- create operations

\* Inbound strings: a null pointer, bytes that are not UTF-8, or a valid string.
KeyIn == {"null", "bad_utf8", "ok"}

\* Configuration text: null, "", not UTF-8, UTF-8 that is not valid JSON5 config, valid.
CfgIn == {"null", "empty", "bad_utf8", "malformed", "ok"}

\* Payload buffer: null with a nonzero length, null with length 0, a buffer.
PayIn == {"null_nonzero", "null_zero", "data"}

\* Where a fault (panic) is injected into a call: nowhere, or in the code that runs
\* before catch_unwind is entered (clear_error, the body of an unguarded function).
EntryFaults == {"none", "entry"}

\* Variant of zenoh_open that hands an empty configuration text to the parser, which
\* rejects it.
zenoh_open_ParsesEmpty(t, cfg, fp) ==
    /\ pc[t] = "idle" /\ proc = "running"
    /\ HasRoom(Cells)
    /\ Cardinality(FreeSess) > Cardinality(Opening)
    /\ IF fp = "entry" THEN Unwind(t, "zenoh_open")
       ELSE IF cfg = "bad_utf8" THEN FailNow(t, RetPtr("zenoh_open", NULL), "Invalid UTF-8 in config")
       ELSE IF cfg \in {"malformed", "empty"} THEN FailNow(t, RetPtr("zenoh_open", NULL), "Config parse error")
       ELSE EnterBridge(t, "zenoh_open", NULL, 0, ub)

\* zenoh_open up to its run_blocking call.
zenoh_open(t, cfg, fp) ==
    /\ pc[t] = "idle" /\ proc = "running"
    /\ HasRoom(Cells)
    /\ Cardinality(FreeSess) > Cardinality(Opening)
    /\ IF fp = "entry" THEN Unwind(t, "zenoh_open")
       ELSE IF cfg = "bad_utf8" THEN FailNow(t, RetPtr("zenoh_open", NULL), "Invalid UTF-8 in config")
       ELSE IF cfg = "malformed" THEN FailNow(t, RetPtr("zenoh_open", NULL), "Config parse error")
       ELSE EnterBridge(t, "zenoh_open", NULL, 0, ub)

\* Variant of the declare entry points that decodes the key expression lossily
\* instead of rejecting text that is not UTF-8.
DeclareCall_Lossy(t, op, p, key, fp) ==
    /\ pc[t] = "idle" /\ proc = "running"
    /\ op \in DeclareOps
    /\ HasRoom(Cells)
    /\ IF fp = "entry" THEN Unwind(t, op)
       ELSE IF p = NULL THEN FailNow(t, RetPtr(op, NULL), NullMsg(op))
       ELSE IF key = "null" THEN FailNow(t, RetPtr(op, NULL), "Key expression is null")
       ELSE IF ~HoldsSession(Makes(op)) THEN EnterBridge(t, op, p, 0, ub)
       ELSE IF heap[p].live THEN EnterBridge(t, op, p, heap[p].sess, ub)
       ELSE \/ EnterBridge(t, op, p, IF ConnOpen(stale[p].sess) THEN stale[p].sess ELSE 0, "use_after_free")
            \/ Crash(t, op, "use_after_free")

\* The zenoh_declare_* / zenoh_liveliness_declare_* entry points up to their bridge
\* call: null checks, UTF-8 decoding, and for publisher and querier the
\* handle.session.clone() taken before the engine is called.
DeclareCallIn(arena, t, op, p, key, fp) ==
    /\ pc[t] = "idle" /\ proc = "running"
    /\ op \in DeclareOps
    /\ HasRoom(arena)
    /\ IF fp = "entry" THEN Unwind(t, op)
       ELSE IF p = NULL THEN FailNow(t, RetPtr(op, NULL), NullMsg(op))
       ELSE IF key = "null" THEN FailNow(t, RetPtr(op, NULL), "Key expression is null")
       ELSE IF key = "bad_utf8" THEN FailNow(t, RetPtr(op, NULL), "Invalid UTF-8 in key expression")
       ELSE IF ~HoldsSession(Makes(op)) THEN EnterBridge(t, op, p, 0, ub)
       ELSE IF heap[p].live THEN EnterBridge(t, op, p, heap[p].sess, ub)
       ELSE \/ EnterBridge(t, op, p, IF ConnOpen(stale[p].sess) THEN stale[p].sess ELSE 0, "use_after_free")
            \/ Crash(t, op, "use_after_free")

\* The declare entry points, boxing their wrapper at an address of 1..MaxAddr.
DeclareCall(t, op, p, key, fp) == DeclareCallIn(Cells, t, op, p, key, fp)

zenoh_declare_publisher(t, p, key, fp) == DeclareCall(t, "zenoh_declare_publisher", p, key, fp)

zenoh_declare_publisher_with_options(t, p, key, fp) == DeclareCall(t, "zenoh_declare_publisher_with_options", p, key, fp)

zenoh_declare_subscriber(t, p, key, fp) == DeclareCall(t, "zenoh_declare_subscriber", p, key, fp)

zenoh_declare_queryable(t, p, key, fp) == DeclareCall(t, "zenoh_declare_queryable", p, key, fp)

zenoh_declare_querier(t, p, key, fp) == DeclareCall(t, "zenoh_declare_querier", p, key, fp)

zenoh_liveliness_declare_token(t, p, key, fp) == DeclareCall(t, "zenoh_liveliness_declare_token", p, key, fp)

zenoh_liveliness_declare_subscriber(t, p, key, fp) == DeclareCall(t, "zenoh_liveliness_declare_subscriber", p, key, fp)

\* ------------------------------------------------------- code-returning operations

\* Entry points that reject a null payload with a nonzero length.
ChecksPayload(op) == op \in {"zenoh_put_with_encoding", "zenoh_put_with_attachment",
                             "zenoh_publisher_put", "zenoh_publisher_put_with_encoding"}

KeyNullMsg(op) == IF op = "zenoh_get" THEN "Selector is null" ELSE "Key expression is null"

KeyUtf8Msg(op) == IF op = "zenoh_get" THEN "Invalid UTF-8 in selector" ELSE "Invalid UTF-8 in key expression"

\* zenoh_put, zenoh_put_with_encoding, zenoh_put_with_attachment, zenoh_delete and
\* zenoh_get up to their bridge call.
SessionCall(t, op, p, key, pay, fp) ==
    /\ pc[t] = "idle" /\ proc = "running"
    /\ op \in SessionCodeOps
    /\ IF fp = "entry" THEN Unwind(t, op)
       ELSE IF p = NULL THEN FailNow(t, RetCode(op, NullPointer), NullMsg(op))
       ELSE IF key = "null" THEN FailNow(t, RetCode(op, NullPointer), KeyNullMsg(op))
       ELSE IF ChecksPayload(op) /\ pay = "null_nonzero"
            THEN FailNow(t, RetCode(op, NullPointer), "Payload pointer is null but length > 0")
       ELSE IF key = "bad_utf8" THEN FailNow(t, RetCode(op, InvalidKeyExpr), KeyUtf8Msg(op))
       ELSE EnterBridge(t, op, p, 0, ub)

zenoh_put(t, p, key, pay, fp) == SessionCall(t, "zenoh_put", p, key, pay, fp)

zenoh_put_with_encoding(t, p, key, pay, fp) == SessionCall(t, "zenoh_put_with_encoding", p, key, pay, fp)

zenoh_put_with_attachment(t, p, key, pay, fp) == SessionCall(t, "zenoh_put_with_attachment", p, key, pay, fp)

zenoh_delete(t, p, key, fp) == SessionCall(t, "zenoh_delete", p, key, "null_zero", fp)

zenoh_get(t, p, key, fp) == SessionCall(t, "zenoh_get", p, key, "null_zero", fp)

\* Variant of the publisher / querier entry points that rejects every null buffer,
\* whatever its length.
HandleCall_RejectsNull(t, op, p, pay, fp) ==
    /\ pc[t] = "idle" /\ proc = "running"
    /\ op \in PublisherOps \cup QuerierOps
    /\ IF fp = "entry" THEN Unwind(t, op)
       ELSE IF p = NULL THEN FailNow(t, RetCode(op, NullPointer), NullMsg(op))
       ELSE IF ChecksPayload(op) /\ pay \in {"null_nonzero", "null_zero"}
            THEN FailNow(t, RetCode(op, NullPointer), "Payload pointer is null but length > 0")
       ELSE EnterBridge(t, op, p, 0, ub)

\* zenoh_publisher_put, zenoh_publisher_put_with_encoding, zenoh_publisher_delete and
\* zenoh_querier_get up to their bridge call.
HandleCall(t, op, p, pay, fp) ==
    /\ pc[t] = "idle" /\ proc = "running"
    /\ op \in PublisherOps \cup QuerierOps
    /\ IF fp = "entry" THEN Unwind(t, op)
       ELSE IF p = NULL THEN FailNow(t, RetCode(op, NullPointer), NullMsg(op))
       ELSE IF ChecksPayload(op) /\ pay = "null_nonzero"
            THEN FailNow(t, RetCode(op, NullPointer), "Payload pointer is null but length > 0")
       ELSE EnterBridge(t, op, p, 0, ub)

zenoh_publisher_put(t, p, pay, fp) == HandleCall(t, "zenoh_publisher_put", p, pay, fp)

zenoh_publisher_put_with_encoding(t, p, pay, fp) == HandleCall(t, "zenoh_publisher_put_with_encoding", p, pay, fp)

zenoh_publisher_delete(t, p, fp) == HandleCall(t, "zenoh_publisher_delete", p, "null_zero", fp)

zenoh_querier_get(t, p, fp) == HandleCall(t, "zenoh_querier_get", p, "null_zero", fp)

\* zenoh_query_reply up to its run_blocking call.  The three null checks come before
\* Box::from_raw(query); the UTF-8 check comes after it, so that return drops the box.
\* Dropping a box that has been freed before is a double free: the call returns all
\* the same, or the allocator aborts the process.
zenoh_query_reply(t, q, key, pay, fp) ==
    /\ pc[t] = "idle" /\ proc = "running"
    /\ LET op == "zenoh_query_reply"
           u == IF q = NULL \/ heap[q].live THEN ub ELSE "use_after_free"
       IN  IF fp = "entry" THEN Unwind(t, op)
           ELSE IF q = NULL THEN FailNow(t, RetCode(op, NullPointer), NullMsg(op))
           ELSE IF key = "null" THEN FailNow(t, RetCode(op, NullPointer), KeyNullMsg(op))
           ELSE IF pay \in {"null_nonzero", "null_zero"}
                THEN FailNow(t, RetCode(op, NullPointer), "Payload pointer is null")
           ELSE IF key = "bad_utf8"
                THEN \/ /\ err' = [err EXCEPT ![t] = set_error(clear_error(err[t]), KeyUtf8Msg(op))]
                        /\ ret' = [ret EXCEPT ![t] = RetCode(op, InvalidKeyExpr)]
                        /\ heap' = [heap EXCEPT ![q] = FreeCell]
                        /\ ub' = IF heap[q].live THEN ub ELSE "double_free"
                        /\ UNCHANGED <<stale, arc, pc, cur, res, seen, helper, proc>>
                     \/ ~heap[q].live /\ Crash(t, op, "double_free")
           ELSE EnterBridge(t, op, q, 0, u)

\* zenoh_session_zid: reads the session wrapper and returns a freshly allocated string.
zenoh_session_zid(t, p, fp) ==
    /\ pc[t] = "idle" /\ proc = "running"
    /\ HasRoom(Cells)
    /\ IF fp = "entry" THEN Unwind(t, "zenoh_session_zid")
       ELSE IF p = NULL THEN FailNow(t, RetPtr("zenoh_session_zid", NULL), "Session pointer is null")
       ELSE \/ /\ err' = [err EXCEPT ![t] = clear_error(err[t])]
               /\ \E a \in Alloc :
                     /\ heap' = [heap EXCEPT ![a] = [kind |-> "CString", live |-> TRUE, sess |-> 0]]
                     /\ stale' = [stale EXCEPT ![a] = NoStale]
                     /\ ret' = [ret EXCEPT ![t] = RetPtr("zenoh_session_zid", a)]
               /\ ub' = IF heap[p].live THEN ub ELSE "use_after_free"
               /\ UNCHANGED <<arc, pc, cur, res, seen, helper, proc>>
            \/ ~heap[p].live /\ Crash(t, "zenoh_session_zid", "use_after_free")

\* Variant of zenoh_query_selector that takes the query by value: the QueryWrapper box
\* is dropped when the call returns.
zenoh_query_selector_Consumes(t, q, sel, fp) ==
    /\ pc[t] = "idle" /\ proc = "running"
    /\ FreeIn(Cells \ {q}) # {}
    /\ q # NULL /\ heap[q].live /\ sel = "ok" /\ fp = "none"
    /\ err' = [err EXCEPT ![t] = clear_error(err[t])]
    /\ \E a \in AllocIn(Cells \ {q}) :
          /\ heap' = [heap EXCEPT ![q] = FreeCell,
                                  ![a] = [kind |-> "CString", live |-> TRUE, sess |-> 0]]
          /\ stale' = [stale EXCEPT ![a] = NoStale]
          /\ ret' = [ret EXCEPT ![t] = RetPtr("zenoh_query_selector", a)]
    /\ UNCHANGED <<arc, pc, cur, res, seen, helper, proc, ub>>

\* zenoh_query_selector: borrows the QueryWrapper (&*query), copies the key expression
\* of its selector into a new CString and returns it with into_raw.  sel: the text of
\* the key expression ("nul": it holds a NUL byte and CString::new refuses it).
zenoh_query_selector(t, q, sel, fp) ==
    /\ pc[t] = "idle" /\ proc = "running"
    /\ HasRoom(Cells)
    /\ LET op == "zenoh_query_selector"
       IN  IF fp = "entry" THEN Unwind(t, op)
           ELSE IF q = NULL THEN FailNow(t, RetPtr(op, NULL), "Query pointer is null")
           ELSE \/ /\ sel = "ok"
                   /\ err' = [err EXCEPT ![t] = clear_error(err[t])]
                   /\ \E a \in AllocIn(Cells) :
                         /\ heap' = [heap EXCEPT ![a] = [kind |-> "CString", live |-> TRUE, sess |-> 0]]
                         /\ stale' = [stale EXCEPT ![a] = NoStale]
                         /\ ret' = [ret EXCEPT ![t] = RetPtr(op, a)]
                   /\ ub' = IF heap[q].live THEN ub ELSE "use_after_free"
                   /\ UNCHANGED <<arc, pc, cur, res, seen, helper, proc>>
                \/ /\ sel = "nul"
                   /\ err' = [err EXCEPT ![t] = set_error(clear_error(err[t]), "Invalid string: nul byte found")]
                   /\ ret' = [ret EXCEPT ![t] = RetPtr(op, NULL)]
                   /\ ub' = IF heap[q].live THEN ub ELSE "use_after_free"
                   /\ UNCHANGED <<heap, stale, arc, pc, cur, res, seen, helper, proc>>
                \/ ~heap[q].live /\ Crash(t, op, "use_after_free")

\* ------------------------------------------------------- the blocking bridge

\* What the engine answers to an operation.
EngineOut == {"ok", "err"}

\* The answers of an engine whose error texts may hold a NUL byte.
EngineOutAnyText == EngineOut \cup {"err_nul"}

\* Variant of the bridge in which a call made inside the context leaves its future to
\* the context's own threads: one that is not inside a foreign callback.
Driver_ContextThread(t) ==
    IF InCtx(t) THEN {w \in Workers : cb[w] = NoCb /\ pc[w] = "idle"} ELSE {t}

\* The threads that can drive the future of t's call: the caller itself outside the
\* context (RUNTIME.block_on), the thread spawned for the call inside it
\* (std::thread::spawn, std::thread::scope).
Driver(t) == IF InCtx(t) THEN {"helper"} ELSE {t}

\* Variant of the bridge that does not wait: the caller goes on while the future has
\* produced no result and the helper thread has not sent any.
BridgeRun_FireAndForget(t, eng, fault, crash) ==
    /\ pc[t] = "pending" /\ proc = "running"
    /\ ~crash
    /\ pc' = [pc EXCEPT ![t] = "ran"]
    /\ UNCHANGED <<heap, stale, arc, cur, res, err, ret, seen, helper, proc, ub>>

\* Variant of the bridge in which a fault of the future is handed back as an
\* operation error.
BridgeRun_FaultAsError(t, eng, fault, crash) ==
    /\ pc[t] = "pending" /\ proc = "running"
    /\ ~crash
    /\ pc' = [pc EXCEPT ![t] = "ran"]
    /\ res' = [res EXCEPT ![t] = IF fault THEN "err" ELSE eng]
    /\ cur' = [cur EXCEPT ![t].on = IF cur[t].p = NULL THEN 0 ELSE heap[cur[t].p].sess]
    /\ helper' = IF InCtx(t)
                 THEN [helper EXCEPT ![t] = [st |-> IF fault THEN "died" ELSE "sent", slot |-> helper[t].slot]]
                 ELSE helper
    /\ UNCHANGED <<heap, stale, arc, err, ret, seen, proc, ub>>

\* Variant of rx_recv that hands a hang-up of the channel back as an operation error
\* (unwrap_or instead of expect).
rx_recv_HangupAsError(ch) == IF ch = <<>> THEN "err" ELSE Head(ch)

\* let _ = tx.send(result), the last statement of the spawned thread: what the channel
\* holds when that thread has ended.  A thread whose block_on panicked never gets to
\* it and drops the sender with the channel empty.
tx_send(out) == IF out = "panic" THEN <<>> ELSE <<out>>

\* rx.recv().expect("Failed to receive result from spawned thread") on the calling
\* thread: the value sent, or a panic of the caller when the sender is gone.  (In
\* run_blocking_local std::thread::scope passes the panic of the scoped thread on to
\* the caller before recv is reached.)
rx_recv(ch) == IF ch = <<>> THEN "panic" ELSE Head(ch)

\* The bridged future runs to completion.  Outside the execution context it runs on
\* the calling thread and its output is the value of RUNTIME.block_on(f); inside, it
\* runs on the spawned thread and its output reaches the caller through the channel.
\* The operation error of the engine is part of the output on both paths: the bridge
\* never makes one up.  The future dereferences the handle's wrapper (handle.session,
\* handle.publisher, handle.querier); the future of zenoh_query_reply owns the
\* QueryWrapper box and drops it when it ends.  eng: what the engine answers.
\* fault: the future panics.  crash: reading a freed wrapper kills the process.
\* The thread spawned for a zenoh_get, which has run the reply callbacks, has ended
\* when the caller goes on.
BridgeRun(t, eng, fault, crash) ==
    /\ pc[t] = "pending" /\ proc = "running"
    /\ Driver(t) # {} /\ ~Calling(t)
    /\ LET op == cur[t].op
           cell == IF cur[t].p = NULL THEN FreeCell ELSE heap[cur[t].p]
           valid == op = "zenoh_open" \/ (cell.live /\ cell.kind = Target(op))
           s == IF op = "zenoh_open" THEN 0
                ELSE IF valid THEN cell.sess
                ELSE stale[cur[t].p].sess
           out == IF fault THEN "panic" ELSE eng
           ch == tx_send(out)
           msgInFuture == op = "zenoh_get" /\ out \in {"err", "err_nul"}
           gone(f) == IF op = "zenoh_get" THEN Without(f, Spawned(t)) ELSE f
       IN  /\ crash => ~valid
           /\ IF crash THEN Crash(t, op, "use_after_free")
              ELSE /\ pc' = gone([pc EXCEPT ![t] = "ran"])
                   /\ res' = gone([res EXCEPT ![t] = IF InCtx(t) THEN rx_recv(ch) ELSE out])
                   /\ cur' = gone([cur EXCEPT ![t].on = s])
                   /\ ub' = IF valid THEN ub ELSE "use_after_free"
                   /\ err' = gone(IF msgInFuture /\ ~InCtx(t)
                                  THEN [err EXCEPT ![t] = set_error(err[t], FailText(op, out))]
                                  ELSE err)
                   /\ helper' = gone(IF InCtx(t)
                                     THEN [helper EXCEPT ![t] =
                                             [st |-> IF ch = <<>> THEN "died" ELSE "sent",
                                              slot |-> IF msgInFuture
                                                       THEN set_error(helper[t].slot, FailText(op, out))
                                                       ELSE helper[t].slot]]
                                     ELSE helper)
                   /\ heap' = IF op \in QueryOps /\ valid
                              THEN [heap EXCEPT ![cur[t].p] = FreeCell] ELSE heap
                   /\ ret' = gone(ret)
                   /\ seen' = gone(seen)
                   /\ UNCHANGED <<stale, arc, proc>>

\* fn run_blocking: the bridge of the operations whose future is 'static.
run_blocking(t, eng, fault, crash) ==
    /\ Shape(cur[t].op) = "detached"
    /\ BridgeRun(t, eng, fault, crash)

\* fn run_blocking_local: the bridge of the operations whose future borrows.
run_blocking_local(t, eng, fault, crash) ==
    /\ Shape(cur[t].op) = "local"
    /\ BridgeRun(t, eng, fault, crash)

\* The call leaves the bridge and returns r to the foreign caller.
Finish(t, r) ==
    /\ pc' = [pc EXCEPT ![t] = "idle"]
    /\ cur' = [cur EXCEPT ![t] = NoCall]
    /\ res' = [res EXCEPT ![t] = "none"]
    /\ helper' = [helper EXCEPT ![t] = NoHelper]
    /\ ret' = [ret EXCEPT ![t] = r]
    /\ UNCHANGED <<seen, proc, ub>>

\* zenoh_open after run_blocking: box a SessionWrapper around a new Arc<Session>, or
\* report the failure.
OpenReturn(t) ==
    /\ pc[t] = "ran" /\ proc = "running"
    /\ cur[t].op = "zenoh_open"
    /\ IF res[t] = "ok"
       THEN \E a \in Alloc :
               /\ heap' = [heap EXCEPT ![a] = [kind |-> "SessionWrapper", live |-> TRUE, sess |-> NewSess]]
               /\ stale' = [stale EXCEPT ![a] = NoStale]
               /\ arc' = [arc EXCEPT ![NewSess] = 1]
               /\ err' = err
               /\ Finish(t, RetPtr("zenoh_open", a))
       ELSE /\ err' = [err EXCEPT ![t] = set_error(err[t],
                          IF res[t] = "panic" THEN PanicMsg("zenoh_open")
                          ELSE FailText("zenoh_open", res[t]))]
            /\ UNCHANGED <<heap, stale, arc>>
            /\ Finish(t, RetPtr("zenoh_open", NULL))

\* Variant of the declare entry points in which the failure arm leaks the session
\* clone (mem::forget) instead of dropping it.
DeclareReturnIn_KeepsClone(arena, t) ==
    /\ pc[t] = "ran" /\ proc = "running"
    /\ cur[t].op \in DeclareOps
    /\ IF res[t] = "ok"
       THEN \E a \in AllocIn(arena) :
               /\ heap' = [heap EXCEPT ![a] = [kind |-> Makes(cur[t].op), live |-> TRUE, sess |-> cur[t].on]]
               /\ stale' = [stale EXCEPT ![a] = NoStale]
               /\ UNCHANGED <<arc, err>>
               /\ Finish(t, RetPtr(cur[t].op, a))
       ELSE /\ err' = [err EXCEPT ![t] = set_error(err[t],
                          IF res[t] = "panic" THEN PanicMsg(cur[t].op)
                          ELSE FailText(cur[t].op, res[t]))]
            /\ UNCHANGED <<heap, stale, arc>>
            /\ Finish(t, RetPtr(cur[t].op, NULL))

\* A declare entry point after its bridge call: box the wrapper (the session clone
\* moves into it), or drop the clone and report the failure.
DeclareReturnIn(arena, t) ==
    /\ pc[t] = "ran" /\ proc = "running"
    /\ cur[t].op \in DeclareOps
    /\ IF res[t] = "ok"
       THEN \E a \in AllocIn(arena) :
               /\ heap' = [heap EXCEPT ![a] = [kind |-> Makes(cur[t].op), live |-> TRUE, sess |-> cur[t].on]]
               /\ stale' = [stale EXCEPT ![a] = NoStale]
               /\ UNCHANGED <<arc, err>>
               /\ Finish(t, RetPtr(cur[t].op, a))
       ELSE /\ err' = [err EXCEPT ![t] = set_error(err[t],
                          IF res[t] = "panic" THEN PanicMsg(cur[t].op)
                          ELSE FailText(cur[t].op, res[t]))]
            /\ arc' = ArcDrop(arc, cur[t].arc)
            /\ UNCHANGED <<heap, stale>>
            /\ Finish(t, RetPtr(cur[t].op, NULL))

DeclareReturn(t) == DeclareReturnIn(Cells, t)

\* A code-returning entry point after its bridge call.  zenoh_get has no Err arm of
\* its own: its message is set inside the future, on the thread that ran it.
CodeReturn(t) ==
    /\ pc[t] = "ran" /\ proc = "running"
    /\ cur[t].op \in SessionCodeOps \cup PublisherOps \cup QuerierOps \cup QueryOps
    /\ UNCHANGED <<heap, stale, arc>>
    /\ IF res[t] = "ok"
       THEN err' = err /\ Finish(t, RetCode(cur[t].op, Ok))
       ELSE IF res[t] = "panic"
       THEN /\ err' = [err EXCEPT ![t] = set_error(err[t], PanicMsg(cur[t].op))]
            /\ Finish(t, RetCode(cur[t].op, Panic))
       ELSE /\ err' = IF cur[t].op = "zenoh_get" THEN err
                      ELSE [err EXCEPT ![t] = set_error(err[t], FailText(cur[t].op, res[t]))]
            /\ Finish(t, RetCode(cur[t].op, FailCode(cur[t].op)))

\* ------------------------------------------------------- destroy operations

\* What freeing an already freed wrapper does: nothing visible, the allocator aborts
\* the process, or the drop glue runs again on the stale fields.
DoubleFree == {"nop", "abort", "redrop"}

\* Box::from_raw(p) (CString::from_raw) and drop, for a non-null p.  keep: the foreign
\* caller keeps the pointer it has just destroyed.
DropBox(t, op, p, o, keep) ==
    IF heap[p].live
    THEN /\ o = "nop"
         /\ heap' = [heap EXCEPT ![p] = FreeCell]
         /\ stale' = [stale EXCEPT ![p] = IF keep THEN [kind |-> heap[p].kind, sess |-> heap[p].sess]
                                           ELSE NoStale]
         /\ arc' = IF HoldsSession(heap[p].kind) THEN ArcDrop(arc, heap[p].sess) ELSE arc
         /\ ret' = [ret EXCEPT ![t] = RetVoid(op, p)]
         /\ UNCHANGED <<pc, cur, res, err, seen, helper, proc, ub>>
    ELSE IF o = "abort" THEN ~keep /\ Crash(t, op, "double_free")
    ELSE /\ ub' = "double_free"
         /\ stale' = [stale EXCEPT ![p] = IF keep THEN stale[p] ELSE NoStale]
         /\ arc' = IF o = "redrop" /\ HoldsSession(stale[p].kind)
                   THEN ArcDrop(arc, stale[p].sess) ELSE arc
         /\ ret' = [ret EXCEPT ![t] = RetVoid(op, p)]
         /\ UNCHANGED <<heap, pc, cur, res, err, seen, helper, proc>>

\* Variant of Destroy without the is_null() early return: Box::from_raw(null) is
\* dropped and the process dies on it.
Destroy_NoNullCheck(t, op, p, o, keep) ==
    /\ pc[t] = "idle" /\ proc = "running"
    /\ op \in DestroyOps
    /\ IF p = NULL
       THEN o = "nop" /\ ~keep /\ Crash(t, op, ub)
       ELSE DropBox(t, op, p, o, keep)

\* zenoh_close, zenoh_undeclare_*, zenoh_liveliness_undeclare_token, zenoh_query_drop,
\* zenoh_free_string: return on null, otherwise Box::from_raw (CString::from_raw) and
\* drop.  The slot is not touched.
Destroy(t, op, p, o, keep) ==
    /\ pc[t] = "idle" /\ proc = "running"
    /\ op \in DestroyOps
    /\ IF p = NULL
       THEN /\ o = "nop" /\ ~keep
            /\ ret' = [ret EXCEPT ![t] = RetVoid(op, p)]
            /\ UNCHANGED <<heap, stale, arc, pc, cur, res, err, seen, helper, proc, ub>>
       ELSE DropBox(t, op, p, o, keep)

zenoh_close(t, p, o, keep) == Destroy(t, "zenoh_close", p, o, keep)

zenoh_undeclare_publisher(t, p, o, keep) == Destroy(t, "zenoh_undeclare_publisher", p, o, keep)

zenoh_undeclare_subscriber(t, p, o, keep) == Destroy(t, "zenoh_undeclare_subscriber", p, o, keep)

zenoh_undeclare_queryable(t, p, o, keep) == Destroy(t, "zenoh_undeclare_queryable", p, o, keep)

zenoh_undeclare_querier(t, p, o, keep) == Destroy(t, "zenoh_undeclare_querier", p, o, keep)

zenoh_liveliness_undeclare_token(t, p, o, keep) == Destroy(t, "zenoh_liveliness_undeclare_token", p, o, keep)

zenoh_query_drop(t, p, o, keep) == Destroy(t, "zenoh_query_drop", p, o, keep)

zenoh_free_string(t, p, o, keep) == Destroy(t, "zenoh_free_string", p, o, keep)

\* ------------------------------------------------------- unguarded entry points

\* zenoh_last_error: reads the calling thread's slot; no catch_unwind around it.
zenoh_last_error(t, fp) ==
    /\ pc[t] = "idle" /\ proc = "running"
    /\ IF fp = "entry" THEN Unwind(t, "zenoh_last_error")
       ELSE /\ seen' = [seen EXCEPT ![t] = err[t]]
            /\ UNCHANGED <<heap, stale, arc, pc, cur, res, err, ret, helper, proc, ub>>

\* zenoh_publisher_options_default: builds a struct literal; touches no state.
zenoh_publisher_options_default(t) ==
    /\ pc[t] = "idle" /\ proc = "running"
    /\ ret' = [ret EXCEPT ![t] = RetOptions("zenoh_publisher_options_default")]
    /\ UNCHANGED <<heap, stale, arc, pc, cur, res, err, seen, helper, proc, ub>>

\* ------------------------------------------------------- initial state

Init ==
    /\ heap = [a \in Cells |-> FreeCell]
    /\ stale = [a \in Cells |-> NoStale]
    /\ arc = [s \in Sess |-> 0]
    /\ pc = [t \in Threads |-> "idle"]
    /\ cur = [t \in Threads |-> NoCall]
    /\ res = [t \in Threads |-> "none"]
    /\ err = [t \in Threads |-> <<>>]
    /\ ret = [t \in Threads |-> RetNone]
    /\ seen = [t \in Threads |-> <<>>]
    /\ helper = [t \in Threads |-> NoHelper]
    /\ proc = "running"
    /\ ub = "none"
    /\ inbox = [a \in Regs |-> <<>>]
    /\ cb = [t \in Threads |-> NoCb]
    /\ log = [a \in Regs |-> <<>>]
    /\ args = [t \in Threads |-> NoArgs]
    /\ due = [a \in Regs |-> <<>>]
    /\ gets = [g \in Streams |-> NoGet]
    /\ qfrom = [q \in Cells |-> "none"]
    /\ qstat = [routed |-> 0, delivered |-> 0, consumed |-> 0]
    /\ rt = NoRuntime
    /\ frames = [r \in Runners |-> NoFrame]

\* ------------------------------------------------------- the foreign caller

\* A caller that keeps the handle contract: a handle argument is null or a live
\* handle returned by the matching create, and a handle is not destroyed while a call
\* on it is in flight.
Honest(op, p) ==
    IF p = NULL THEN TRUE
    ELSE /\ heap[p].live
         /\ heap[p].kind = Target(op)
         /\ op \in DestroyOps
               => \A u \in Threads :
                     cur[u].p # p /\ ("outer" \in DOMAIN cb[u] => cb[u].outer.cur.p # p)

\* A caller that only keeps the types: the argument is null or an address the
\* matching create returned, possibly destroyed since, possibly in use elsewhere.
Typed(op, p) ==
    IF p = NULL THEN TRUE
    ELSE IF heap[p].live THEN heap[p].kind = Target(op)
    ELSE stale[p].kind = Target(op)

\* ------------------------------------------------------- Spec: handle lifecycle

\* One foreign thread drives every create and destroy operation with valid strings,
\* keeping the handle contract and holding one session handle at a time (a closed
\* session's connection lives on in its publishers and queriers); the engine may fail
\* any operation.
Next ==
    \/ (\A a \in Addr : heap[a].live => heap[a].kind # "SessionWrapper")
          /\ HasRoom(Addr) /\ zenoh_open("F", "ok", "none") /\ UNCHANGED evars
    \/ OpenReturn("F") /\ UNCHANGED evars /\ Within(Addr)
    \/ \E p \in Addr : Honest("zenoh_declare_publisher", p) /\ HasRoom(Addr) /\ zenoh_declare_publisher("F", p, "ok", "none") /\ UNCHANGED evars
    \/ \E p \in Addr : Honest("zenoh_declare_publisher_with_options", p) /\ HasRoom(Addr) /\ zenoh_declare_publisher_with_options("F", p, "ok", "none") /\ UNCHANGED evars
    \/ \E p \in Addr : Honest("zenoh_declare_subscriber", p) /\ HasRoom(Addr) /\ zenoh_declare_subscriber("F", p, "ok", "none") /\ UNCHANGED evars
    \/ \E p \in Addr : Honest("zenoh_declare_queryable", p) /\ HasRoom(Addr) /\ zenoh_declare_queryable("F", p, "ok", "none") /\ UNCHANGED evars
    \/ \E p \in Addr : Honest("zenoh_declare_querier", p) /\ HasRoom(Addr) /\ zenoh_declare_querier("F", p, "ok", "none") /\ UNCHANGED evars
    \/ \E p \in Addr : Honest("zenoh_liveliness_declare_token", p) /\ HasRoom(Addr) /\ zenoh_liveliness_declare_token("F", p, "ok", "none") /\ UNCHANGED evars
    \/ \E p \in Addr : Honest("zenoh_liveliness_declare_subscriber", p) /\ HasRoom(Addr) /\ zenoh_liveliness_declare_subscriber("F", p, "ok", "none") /\ UNCHANGED evars
    \/ DeclareReturn("F") /\ UNCHANGED evars /\ Within(Addr)
    \/ \E p \in Addr : Honest("zenoh_publisher_put", p) /\ zenoh_publisher_put("F", p, "data", "none") /\ UNCHANGED evars
    \/ \E p \in Addr : Honest("zenoh_publisher_delete", p) /\ zenoh_publisher_delete("F", p, "none") /\ UNCHANGED evars
    \/ \E p \in Addr : Honest("zenoh_querier_get", p) /\ zenoh_querier_get("F", p, "none") /\ UNCHANGED evars
    \/ CodeReturn("F") /\ UNCHANGED evars
    \/ \E eng \in EngineOut : run_blocking("F", eng, FALSE, FALSE) /\ UNCHANGED evars
    \/ \E eng \in EngineOut : run_blocking_local("F", eng, FALSE, FALSE) /\ UNCHANGED evars
    \/ \E p \in Ptr : Honest("zenoh_close", p) /\ zenoh_close("F", p, "nop", FALSE) /\ UNCHANGED evars
    \/ \E p \in Ptr : Honest("zenoh_undeclare_publisher", p) /\ zenoh_undeclare_publisher("F", p, "nop", FALSE) /\ UNCHANGED evars
    \/ \E p \in Ptr : Honest("zenoh_undeclare_subscriber", p) /\ zenoh_undeclare_subscriber("F", p, "nop", FALSE) /\ UNCHANGED evars
    \/ \E p \in Ptr : Honest("zenoh_undeclare_queryable", p) /\ zenoh_undeclare_queryable("F", p, "nop", FALSE) /\ UNCHANGED evars
    \/ \E p \in Ptr : Honest("zenoh_undeclare_querier", p) /\ zenoh_undeclare_querier("F", p, "nop", FALSE) /\ UNCHANGED evars
    \/ \E p \in Ptr : Honest("zenoh_liveliness_undeclare_token", p) /\ zenoh_liveliness_undeclare_token("F", p, "nop", FALSE) /\ UNCHANGED evars
    \/ zenoh_query_drop("F", NULL, "nop", FALSE) /\ UNCHANGED evars
    \/ zenoh_free_string("F", NULL, "nop", FALSE) /\ UNCHANGED evars

Spec == Init /\ [][Next]_vars

\* ------------------------------------------------------- C1, C2, C4 (under Spec)

\* Live wrappers of the given kinds that were declared on connection s.
LiveOf(kinds, s) == {a \in Cells : heap[a].live /\ heap[a].kind \in kinds /\ heap[a].sess = s}

\* Calls in flight that hold a clone of the Arc<Session> of s.
InFlightClones(s) == {t \in Alive : cur[t].arc = s}

AllIdle == \A t \in Threads : pc[t] = "idle"

\* C1: a connection whose session handle was closed stays open while a publisher or
\* querier declared on it is live; a publisher-put, publisher-delete or querier-get
\* runs on an open connection; and the connection is released exactly when the
\* session handle and every publisher and querier on it (and every declare call
\* still holding a clone) are gone.
C1_ConnectionOutlivesSessionHandle ==
    /\ \A a \in Addr :
          heap[a].live /\ heap[a].kind \in {"PublisherWrapper", "QuerierWrapper"}
              => ConnOpen(heap[a].sess)
    /\ \A t \in Threads :
          pc[t] = "ran" /\ cur[t].op \in PublisherOps \cup QuerierOps => ConnOpen(cur[t].on)
    /\ \A s \in Sess :
          ConnOpen(s) <=> \/ LiveOf({"SessionWrapper", "PublisherWrapper", "QuerierWrapper"}, s) # {}
                          \/ InFlightClones(s) # {}

\* A publisher-put has run successfully on a connection whose session handle is closed.
C1_Witness ==
    \E t \in Threads :
        /\ pc[t] = "ran" /\ cur[t].op = "zenoh_publisher_put" /\ res[t] = "ok"
        /\ LiveOf({"SessionWrapper"}, cur[t].on) = {}

\* C2 as stated: between calls, the reference count of a session is 1 (if its handle
\* is not closed) plus the number of live dependent handles of every kind.
C2_CountsEveryDependent ==
    AllIdle =>
        \A s \in Sess :
            arc[s] = Cardinality(LiveOf({"SessionWrapper"}, s))
                     + Cardinality(LiveOf(Kinds \ {"SessionWrapper", "QueryWrapper", "CString"}, s))

\* C2 amended: the reference count of a session is 1 (if its handle is not closed)
\* plus the number of live publisher and querier handles plus the number of
\* declare-publisher / declare-querier calls in flight; subscriber, queryable,
\* liveliness-token and liveliness-subscriber wrappers hold no reference.
C2_CountsPublishersAndQueriers ==
    \A s \in Sess :
        arc[s] = Cardinality(LiveOf({"SessionWrapper"}, s))
                 + Cardinality(LiveOf({"PublisherWrapper", "QuerierWrapper"}, s))
                 + Cardinality(InFlightClones(s))

\* A subscriber, queryable or liveliness token is live on a session whose handle is
\* open, and the count is 1.
C2_Witness ==
    \E s \in Sess :
        /\ LiveOf({"SessionWrapper"}, s) # {}
        /\ LiveOf({"SubscriberWrapper", "QueryableWrapper", "LivelinessTokenWrapper"}, s) # {}
        /\ arc[s] = 1

\* ------------------------------------------------------- SpecMisuse: stale pointers

\* One foreign thread that keeps only the types: it may keep a pointer it has
\* destroyed and pass it again, to a destroy operation or to any other entry point.
\* Freeing or reading freed memory has every outcome the build can produce.
NextMisuse ==
    \/ HasRoom(Addr) /\ zenoh_open("F", "ok", "none") /\ UNCHANGED evars
    \/ OpenReturn("F") /\ UNCHANGED evars /\ Within(Addr)
    \/ \E p \in Addr : Typed("zenoh_declare_publisher", p) /\ HasRoom(Addr) /\ zenoh_declare_publisher("F", p, "ok", "none") /\ UNCHANGED evars
    \/ \E p \in Addr : Typed("zenoh_declare_subscriber", p) /\ HasRoom(Addr) /\ zenoh_declare_subscriber("F", p, "ok", "none") /\ UNCHANGED evars
    \/ \E p \in Addr : Typed("zenoh_declare_queryable", p) /\ HasRoom(Addr) /\ zenoh_declare_queryable("F", p, "ok", "none") /\ UNCHANGED evars
    \/ \E p \in Addr : Typed("zenoh_declare_querier", p) /\ HasRoom(Addr) /\ zenoh_declare_querier("F", p, "ok", "none") /\ UNCHANGED evars
    \/ \E p \in Addr : Typed("zenoh_liveliness_declare_token", p) /\ HasRoom(Addr) /\ zenoh_liveliness_declare_token("F", p, "ok", "none") /\ UNCHANGED evars
    \/ DeclareReturn("F") /\ UNCHANGED evars /\ Within(Addr)
    \/ \E p \in Addr : Typed("zenoh_session_zid", p) /\ HasRoom(Addr) /\ zenoh_session_zid("F", p, "none") /\ UNCHANGED evars /\ Within(Addr)
    \/ \E eng \in EngineOut, crash \in BOOLEAN : run_blocking("F", eng, FALSE, crash) /\ UNCHANGED evars
    \/ \E eng \in EngineOut, crash \in BOOLEAN : run_blocking_local("F", eng, FALSE, crash) /\ UNCHANGED evars
    \/ \E p \in Ptr, o \in DoubleFree, keep \in BOOLEAN :
          Typed("zenoh_close", p) /\ zenoh_close("F", p, o, keep) /\ UNCHANGED evars
    \/ \E p \in Ptr, o \in DoubleFree, keep \in BOOLEAN :
          Typed("zenoh_undeclare_publisher", p) /\ zenoh_undeclare_publisher("F", p, o, keep) /\ UNCHANGED evars
    \/ \E p \in Ptr, o \in DoubleFree, keep \in BOOLEAN :
          Typed("zenoh_undeclare_subscriber", p) /\ zenoh_undeclare_subscriber("F", p, o, keep) /\ UNCHANGED evars
    \/ \E p \in Ptr, o \in DoubleFree, keep \in BOOLEAN :
          Typed("zenoh_undeclare_queryable", p) /\ zenoh_undeclare_queryable("F", p, o, keep) /\ UNCHANGED evars
    \/ \E p \in Ptr, o \in DoubleFree, keep \in BOOLEAN :
          Typed("zenoh_undeclare_querier", p) /\ zenoh_undeclare_querier("F", p, o, keep) /\ UNCHANGED evars
    \/ \E p \in Ptr, o \in DoubleFree, keep \in BOOLEAN :
          Typed("zenoh_liveliness_undeclare_token", p) /\ zenoh_liveliness_undeclare_token("F", p, o, keep) /\ UNCHANGED evars
    \/ \E p \in Ptr, o \in DoubleFree, keep \in BOOLEAN :
          Typed("zenoh_free_string", p) /\ zenoh_free_string("F", p, o, keep) /\ UNCHANGED evars

SpecMisuse == Init /\ [][NextMisuse]_vars

\* C3: a destroy operation called a second time on the same handle is a no-op: it
\* frees nothing, reads no freed wrapper, changes no handle and no reference count,
\* and returns normally.
C3_SecondDestroyIsNoOp ==
    [][\A t \in Threads, op \in DestroyOps \ {"zenoh_query_drop"}, p \in Addr,
          o \in DoubleFree, keep \in BOOLEAN :
          (~heap[p].live /\ stale[p].kind = Target(op) /\ Destroy(t, op, p, o, keep))
              => /\ UNCHANGED <<heap, arc, ub, proc>>
                 /\ ret'[t] = RetVoid(op, p)]_vars

\* ------------------------------------------------------- SpecRace: destroy during a call

\* The foreign threads that race in SpecRace.
Racers == {"F", "G"}

\* A handle argument that is live, of the right type, when the call is made.
LiveArg(op, p) == p # NULL /\ heap[p].live /\ heap[p].kind = Target(op)

\* Two foreign threads share the handles.  Every call is made with a handle that is
\* live at the time of the call, but a thread may undeclare a publisher or close a
\* session while the other thread's call on it is blocked in the bridge.
NextRace ==
    \/ HasRoom(Addr) /\ zenoh_open("F", "ok", "none") /\ UNCHANGED evars
    \/ OpenReturn("F") /\ UNCHANGED evars /\ Within(Addr)
    \/ \E p \in Addr : LiveArg("zenoh_declare_publisher", p) /\ HasRoom(Addr) /\ zenoh_declare_publisher("F", p, "ok", "none") /\ UNCHANGED evars
    \/ DeclareReturn("F") /\ UNCHANGED evars /\ Within(Addr)
    \/ \E t \in Racers, p \in Addr : LiveArg("zenoh_publisher_put", p) /\ zenoh_publisher_put(t, p, "data", "none") /\ UNCHANGED evars
    \/ \E t \in Racers, p \in Addr : LiveArg("zenoh_put", p) /\ zenoh_put(t, p, "ok", "data", "none") /\ UNCHANGED evars
    \/ \E t \in Racers : CodeReturn(t) /\ UNCHANGED evars
    \/ \E t \in Racers, eng \in EngineOut, crash \in BOOLEAN : run_blocking(t, eng, FALSE, crash) /\ UNCHANGED evars
    \/ \E t \in Racers, p \in Addr :
          LiveArg("zenoh_undeclare_publisher", p) /\ zenoh_undeclare_publisher(t, p, "nop", FALSE) /\ UNCHANGED evars
    \/ \E t \in Racers, p \in Addr : LiveArg("zenoh_close", p) /\ zenoh_close(t, p, "nop", FALSE) /\ UNCHANGED evars

SpecRace == Init /\ [][NextRace]_vars

\* C5: in every interleaving of calls from several threads, no operation reads a
\* wrapper after its destroy operation was invoked: a call blocked in the bridge
\* never touches a wrapper that another thread has freed meanwhile.
C5_NoReadAfterDestroy == ub # "use_after_free"

\* The threads that call in SpecErr: F is a foreign thread outside the execution
\* context, W calls from inside it (from a callback), so W's bridge calls run their
\* future on a helper thread.
Callers == {"F", "W"}

\* ------------------------------------------------------- SpecGuard: faults

\* Faults are raised inside the entry points: in the code that runs before
\* catch_unwind is entered (clear_error, the whole of zenoh_last_error), and in the
\* bridged future, on the calling thread (F) or on the bridge's helper thread (W).
NextGuard ==
    \/ \E fp \in EntryFaults : HasRoom(Addr) /\ zenoh_open("F", "ok", fp) /\ UNCHANGED evars
    \/ OpenReturn("F") /\ UNCHANGED evars /\ Within(Addr)
    \/ \E p \in Addr, fp \in EntryFaults :
          Honest("zenoh_declare_publisher", p) /\ HasRoom(Addr) /\ zenoh_declare_publisher("F", p, "ok", fp) /\ UNCHANGED evars
    \/ DeclareReturn("F") /\ UNCHANGED evars /\ Within(Addr)
    \/ \E p \in Addr, fp \in EntryFaults :
          Honest("zenoh_publisher_put", p) /\ zenoh_publisher_put("W", p, "data", fp) /\ UNCHANGED evars
    \/ \E p \in Addr, fp \in EntryFaults : Honest("zenoh_get", p) /\ zenoh_get("W", p, "ok", fp) /\ UNCHANGED evars
    \/ CodeReturn("W") /\ UNCHANGED evars
    \/ \E t \in Callers, eng \in EngineOut, fault \in BOOLEAN : run_blocking(t, eng, fault, FALSE) /\ UNCHANGED evars
    \/ \E eng \in EngineOut, fault \in BOOLEAN : run_blocking_local("W", eng, fault, FALSE) /\ UNCHANGED evars
    \/ \E p \in Addr : Honest("zenoh_undeclare_publisher", p) /\ zenoh_undeclare_publisher("F", p, "nop", FALSE) /\ UNCHANGED evars
    \/ \E p \in Addr : Honest("zenoh_close", p) /\ zenoh_close("F", p, "nop", FALSE) /\ UNCHANGED evars
    \/ \E fp \in EntryFaults : zenoh_last_error("F", fp) /\ UNCHANGED evars
    \/ zenoh_publisher_options_default("F") /\ UNCHANGED evars

SpecGuard == Init /\ [][NextGuard]_vars

\* C10: wherever a fault is raised in an entry point (the slot clearing at entry,
\* last-error, publisher-options-default, the helper thread of the bridge), the call
\* returns normally; no fault unwinds past the boundary.
C10_NoFaultPastBoundary ==
    /\ proc = "running"
    /\ \A t \in Threads : ret[t].k # "unwind"

\* ------------------------------------------------------- SpecFault: caught faults

\* Faults are raised only where the guard catches them: in the bridged future, on the
\* calling thread (F) or on the bridge's helper thread (W).  W also passes null
\* handles and null buffers, and the engine may fail, so that ordinary failure
\* returns occur next to the fault returns.
NextFault ==
    \/ HasRoom(Addr) /\ zenoh_open("F", "ok", "none") /\ UNCHANGED evars
    \/ OpenReturn("F") /\ UNCHANGED evars /\ LowestFirst(Addr)
    \/ \E p \in Addr : Honest("zenoh_declare_publisher", p) /\ HasRoom(Addr) /\ zenoh_declare_publisher("F", p, "ok", "none") /\ UNCHANGED evars
    \/ DeclareReturn("F") /\ UNCHANGED evars /\ LowestFirst(Addr)
    \/ \E p \in Ptr, pay \in PayIn :
          Honest("zenoh_publisher_put", p) /\ zenoh_publisher_put("W", p, pay, "none") /\ UNCHANGED evars
    \/ \E t \in Callers, p \in Addr : Honest("zenoh_get", p) /\ zenoh_get(t, p, "ok", "none") /\ UNCHANGED evars
    \/ \E t \in Callers : CodeReturn(t) /\ UNCHANGED evars
    \/ \E t \in Callers, eng \in EngineOut, fault \in BOOLEAN : run_blocking(t, eng, fault, FALSE) /\ UNCHANGED evars
    \/ \E t \in Callers, eng \in EngineOut, fault \in BOOLEAN : run_blocking_local(t, eng, fault, FALSE) /\ UNCHANGED evars
    \/ \E p \in Addr : Honest("zenoh_close", p) /\ zenoh_close("F", p, "nop", FALSE) /\ UNCHANGED evars

SpecFault == Init /\ [][NextFault]_vars

\* C11: a fault caught by the guard of an entry point makes a pointer-returning
\* operation return null and a code-returning operation return Panic (254), each with
\* the "Panic occurred in ..." message in the caller's slot; and Panic is returned by
\* no step other than the return of a call whose guard caught a fault.
C11_CaughtFaultIsReported ==
    [][\A t \in Threads :
          /\ pc[t] = "ran" /\ pc'[t] = "idle" /\ res[t] = "panic"
                => /\ err'[t] = <<PanicMsg(cur[t].op)>>
                   /\ ret'[t] = IF ReturnsPtr(cur[t].op) THEN RetPtr(cur[t].op, NULL)
                                ELSE RetCode(cur[t].op, Panic)
          /\ ret'[t] # ret[t] /\ ret'[t].k = "code" /\ ret'[t].v = Panic
                => pc[t] = "ran" /\ res[t] = "panic"]_vars

\* A get made from inside the execution context, whose helper thread died of a fault,
\* has returned Panic with the message in the caller's slot; and a pointer-returning
\* call has returned null after a caught fault.
C11_Witness ==
    /\ ret["W"] = RetCode("zenoh_get", Panic)
    /\ err["W"] = <<PanicMsg("zenoh_get")>>
    /\ pc["W"] = "idle"
    /\ \E op \in DeclareOps \cup {"zenoh_open"} :
          ret["F"] = RetPtr(op, NULL) /\ err["F"] = <<PanicMsg(op)>>

\* C12: on both paths of both bridge shapes a call returns to the foreign caller only
\* after the operation it handed to the bridge has finished, with success, with an
\* error or with a fault; inside the execution context, only after the helper thread
\* has sent its result or died.  No call returns while its operation is pending.
C12_ReturnsAfterCompletion ==
    [][\A t \in Threads :
          pc[t] # "idle" /\ pc'[t] = "idle"
              => /\ pc[t] = "ran"
                 /\ res[t] \in {"ok", "err", "panic"}
                 /\ InCtx(t) => helper[t].st \in {"sent", "died"}
                 /\ ret'[t].op = cur[t].op /\ ret'[t].k \in {"ptr", "code"}]_vars

\* Calls of both shapes are complete and about to return, on a thread outside the
\* context (F) and on a thread inside it (W).
C12_Witness ==
    /\ pc["F"] = "ran" /\ Shape(cur["F"].op) = "local"
    /\ pc["W"] = "ran" /\ Shape(cur["W"].op) = "detached" /\ helper["W"].st = "sent"

\* ------------------------------------------------------- encodings and attachments

\* enum ZenohEncodingId.
Empty == 0
AppOctetStream == 1
TextPlain == 2
AppJson == 3
TextJson == 4
AppCbor == 5
AppYaml == 6
TextYaml == 7
TextXml == 8
AppXml == 9
TextCsv == 10
AppProtobuf == 11
TextHtml == 12

ZenohEncodingId == {Empty, AppOctetStream, TextPlain, AppJson, TextJson, AppCbor, AppYaml,
                    TextYaml, TextXml, AppXml, TextCsv, AppProtobuf, TextHtml}

\* An engine Encoding is modelled by the text its to_string() gives.  The engine's
\* Encoding::default() is its "zenoh/bytes" encoding.
Encoding_default == "zenoh/bytes"

\* Encodings a sample can arrive with: the engine's named encodings the boundary
\* knows, the engine's default, a known encoding with a schema suffix, one the
\* boundary has no identifier for, and the empty text.
WireEncodings ==
    {"application/octet-stream", "text/plain", "application/json", "text/json",
     "application/cbor", "application/yaml", "text/yaml", "text/xml", "application/xml",
     "text/csv", "application/protobuf", "text/html",
     Encoding_default, "text/plain;utf-8", "image/png", ""}

\* Variant of encoding_to_id whose fallback arm is Empty.
encoding_to_id_FallbackEmpty(encoding) ==
    CASE encoding = "application/octet-stream" -> AppOctetStream
      [] encoding = "text/plain" -> TextPlain
      [] encoding = "application/json" -> AppJson
      [] encoding = "text/json" -> TextJson
      [] encoding = "application/cbor" -> AppCbor
      [] encoding = "application/yaml" -> AppYaml
      [] encoding = "text/yaml" -> TextYaml
      [] encoding = "text/xml" -> TextXml
      [] encoding = "application/xml" -> AppXml
      [] encoding = "text/csv" -> TextCsv
      [] encoding = "application/protobuf" -> AppProtobuf
      [] encoding = "text/html" -> TextHtml
      [] OTHER -> Empty

\* fn encoding_to_id: match on encoding.to_string().
encoding_to_id(encoding) ==
    CASE encoding = "application/octet-stream" -> AppOctetStream
      [] encoding = "text/plain" -> TextPlain
      [] encoding = "application/json" -> AppJson
      [] encoding = "text/json" -> TextJson
      [] encoding = "application/cbor" -> AppCbor
      [] encoding = "application/yaml" -> AppYaml
      [] encoding = "text/yaml" -> TextYaml
      [] encoding = "text/xml" -> TextXml
      [] encoding = "application/xml" -> AppXml
      [] encoding = "text/csv" -> TextCsv
      [] encoding = "application/protobuf" -> AppProtobuf
      [] encoding = "text/html" -> TextHtml
      [] encoding = "" -> Empty
      [] OTHER -> AppOctetStream

\* fn id_to_encoding.
id_to_encoding(id) ==
    CASE id = Empty -> Encoding_default
      [] id = AppOctetStream -> "application/octet-stream"
      [] id = TextPlain -> "text/plain"
      [] id = AppJson -> "application/json"
      [] id = TextJson -> "text/json"
      [] id = AppCbor -> "application/cbor"
      [] id = AppYaml -> "application/yaml"
      [] id = TextYaml -> "text/yaml"
      [] id = TextXml -> "text/xml"
      [] id = AppXml -> "application/xml"
      [] id = TextCsv -> "text/csv"
      [] id = AppProtobuf -> "application/protobuf"
      [] id = TextHtml -> "text/html"

\* Bytes of the keys and values of attachment entries.
Byte == 0..255

\* (n as u32).to_le_bytes(): the four low-order bytes of n, lowest first.
to_le_bytes(n) == [i \in 1..4 |-> (n \div (256 ^ (i - 1))) % 256]

\* An attachment entry as the foreign caller passes it: key is a null pointer, a
\* string that is not UTF-8, or a string of bytes; value is a pointer (vp) to
\* value_len = Len(value) bytes.
AttachmentItems ==
    { [k |-> "null", key |-> <<>>, vp |-> "ok", value |-> <<7>>],
      [k |-> "bad_utf8", key |-> <<255>>, vp |-> "ok", value |-> <<7>>],
      [k |-> "ok", key |-> <<97>>, vp |-> "null", value |-> <<7>>],
      [k |-> "ok", key |-> <<98, 99>>, vp |-> "ok", value |-> <<7>>] }

\* let value = if item.value.is_null() || item.value_len == 0 { &[] } else { slice }.
value(item) == IF item.vp = "null" \/ Len(item.value) = 0 THEN <<>> ELSE item.value

\* The attachment lists of at most MaxItems entries; the empty list stands for a
\* null attachment_items pointer or attachment_count = 0.
AttIn == UNION {[1..n -> AttachmentItems] : n \in 0..MaxItems}

\* No attachment / the attachment with the given bytes (Option<Vec<u8>>).
None == [some |-> FALSE, bytes |-> <<>>]
Some(b) == [some |-> TRUE, bytes |-> b]

\* Variant of the serialisation loop that writes an entry with a null or non-UTF-8
\* key as an entry with an empty key.
RECURSIVE serialized_KeepMalformed(_)
serialized_KeepMalformed(items) ==
    IF items = <<>> THEN <<>>
    ELSE LET item == Head(items)
             key_bytes == IF item.k = "ok" THEN item.key ELSE <<>>
         IN  to_le_bytes(Len(key_bytes)) \o key_bytes
                 \o to_le_bytes(Len(value(item))) \o value(item)
                 \o serialized_KeepMalformed(Tail(items))

\* The loop over the attachment items: an item with a null key or a key that is not
\* UTF-8 is skipped (continue); for the others the key length, the key, the value
\* length and the value are appended.
RECURSIVE serialized(_)
serialized(items) ==
    IF items = <<>> THEN <<>>
    ELSE LET item == Head(items)
         IN  IF item.k # "ok" THEN serialized(Tail(items))
             ELSE to_le_bytes(Len(item.key)) \o item.key
                      \o to_le_bytes(Len(value(item))) \o value(item)
                      \o serialized(Tail(items))

\* let attachment_bytes: Option<Vec<u8>> = ...
attachment_bytes(items) ==
    IF items = <<>> THEN None
    ELSE IF serialized(items) = <<>> THEN None ELSE Some(serialized(items))

\* ------------------------------------------------------- events and callbacks

\* Option<Timestamp> of a sample: None, or Some of an NTP64 time (seconds in the
\* upper 32 bits, fraction in the lower 32 bits, kept as <<seconds, fraction>>)
\* and the identifier of its source, a number.
NoTimestamp == [some |-> FALSE, time |-> <<0, 0>>, id |-> 0]
Timestamped(time, id) == [some |-> TRUE, time |-> time, id |-> id]

\* ID::to_le_bytes(): the 16 bytes of the identifier, least significant first
\* (identifiers below 2^31).
id_to_le_bytes(n) == [i \in 1..16 |-> IF i <= 4 THEN (n \div (256 ^ (i - 1))) % 256 ELSE 0]

\* Variant of the timestamp marshaling that always marks the timestamp as present,
\* with zeroed fields when the sample carries none.
ZenohTimestamp_AlwaysValid(sample) ==
    [valid |-> TRUE, time_ntp64 |-> sample.timestamp.time,
     id |-> IF sample.timestamp.some THEN id_to_le_bytes(sample.timestamp.id) ELSE [i \in 1..16 |-> 0]]

\* match sample.timestamp(): Some(ts) gives (true, { ts.get_time().as_u64(), the
\* first 16 of ts.get_id().to_le_bytes() }), None gives (false, zeroes).
ZenohTimestamp(sample) ==
    IF sample.timestamp.some
    THEN LET id_bytes == id_to_le_bytes(sample.timestamp.id)
             n == IF 16 < Len(id_bytes) THEN 16 ELSE Len(id_bytes)
         IN  [valid |-> TRUE, time_ntp64 |-> sample.timestamp.time, id |-> SubSeq(id_bytes, 1, n)]
    ELSE [valid |-> FALSE, time_ntp64 |-> <<0, 0>>, id |-> [i \in 1..16 |-> 0]]

\* Entry points that publish a sample with kind = put.
PutOps == {"zenoh_put", "zenoh_put_with_encoding", "zenoh_put_with_attachment",
           "zenoh_publisher_put", "zenoh_publisher_put_with_encoding"}

\* The bytes in the foreign caller's buffer.
Buf(pay) == IF pay = "data" THEN <<1>> ELSE <<>>

\* The Vec<u8> an entry point builds from (payload, payload_len):
\* if payload.is_null() || payload_len == 0 { Vec::new() } else { slice.to_vec() }.
Bytes(pay) == IF pay \in {"null_nonzero", "null_zero"} THEN <<>> ELSE Buf(pay)

\* The arguments of the call are kept for the future the bridge runs.
Record(t, key, pay) ==
    /\ args' = [args EXCEPT ![t] = [key |-> key, pay |-> pay]]
    /\ UNCHANGED <<inbox, cb, log, due, gets, qfrom, qstat, rt, frames>>

\* The arguments of a put with an encoding identifier.
RecordEncoding(t, key, pay, encoding_id) ==
    /\ args' = [args EXCEPT ![t] = [key |-> key, pay |-> pay, encoding_id |-> encoding_id]]
    /\ UNCHANGED <<inbox, cb, log, due, gets, qfrom, qstat, rt, frames>>

\* The arguments of a put with an attachment list.
RecordAttachment(t, key, pay, items) ==
    /\ args' = [args EXCEPT ![t] = [key |-> key, pay |-> pay, items |-> items]]
    /\ UNCHANGED <<inbox, cb, log, due, gets, qfrom, qstat, rt, frames>>

\* The call has returned; its arguments are dead.
Forget(t) ==
    /\ args' = [args EXCEPT ![t] = NoArgs]
    /\ UNCHANGED <<inbox, cb, log, due, gets, qfrom, qstat, rt, frames>>

\* The subscribers the engine delivers a publication on connection s to.
Subscribed(a, s) ==
    Registered(a, "SubscriberWrapper") /\ RegSess(a) = s /\ ConnOpen(s)

\* The engine has run session.put(key, data) / publisher.put(data): on success the
\* sample is queued for every subscriber of the connection.  due records what the
\* publishing caller supplied.
Route(t) ==
    LET hit(a) == /\ cur[t].op \in PutOps /\ res'[t] = "ok"
                  /\ Subscribed(a, cur'[t].on)
        encoding_id == IF "encoding_id" \in DOMAIN args[t] THEN args[t].encoding_id ELSE Empty
        items == IF "items" \in DOMAIN args[t] THEN args[t].items ELSE <<>>
        encoding == IF "encoding_id" \in DOMAIN args[t]
                    THEN id_to_encoding(encoding_id) ELSE Encoding_default
        sample == [key |-> args[t].key, bytes |-> Bytes(args[t].pay), kind |-> "put",
                   encoding |-> encoding, attachment |-> attachment_bytes(items),
                   timestamp |-> NoTimestamp]
        supplied == [key |-> args[t].key, bytes |-> Buf(args[t].pay), kind |-> "put",
                     op |-> cur[t].op, encoding_id |-> encoding_id, items |-> items]
    IN  /\ inbox' = [a \in DOMAIN inbox |-> IF hit(a) THEN Append(inbox[a], sample) ELSE inbox[a]]
        /\ due' = [a \in DOMAIN inbox |-> IF hit(a) THEN Append(due[a], supplied) ELSE due[a]]
        /\ UNCHANGED <<cb, log, args, gets, qfrom, qstat, rt, frames>>

\* The engine delivers to registration a a sample a remote publisher put with the
\* given wire encoding.
peer_put(a, encoding) ==
    /\ proc = "running"
    /\ Subscribed(a, RegSess(a))
    /\ inbox' = [inbox EXCEPT ![a] = Append(@, [key |-> "ok", bytes |-> <<1>>, kind |-> "put",
                                                encoding |-> encoding, attachment |-> None,
                                                timestamp |-> NoTimestamp])]
    /\ due' = [due EXCEPT ![a] = Append(@, [key |-> "ok", bytes |-> <<1>>, kind |-> "put",
                                            op |-> "peer", wire |-> encoding])]
    /\ UNCHANGED <<cb, log, args, gets, qfrom, qstat, rt, frames>>
    /\ UNCHANGED <<heap, stale, arc, pc, cur, res, err, ret, seen, helper, proc, ub>>

\* Variant of the sample marshaling that passes no payload to the foreign callback.
SampleData_NoPayload(sample) ==
    [key |-> sample.key, bytes |-> <<>>, kind |-> sample.kind,
     encoding_id |-> encoding_to_id(sample.encoding),
     timestamp_valid |-> ZenohTimestamp(sample).valid,
     timestamp |-> [time_ntp64 |-> ZenohTimestamp(sample).time_ntp64, id |-> ZenohTimestamp(sample).id]]

\* The SampleData view the callback closure builds from a Sample: key_expr from
\* CString::new(sample.key_expr()), payload from sample.payload().to_bytes(), kind,
\* encoding_id from encoding_to_id(sample.encoding()), timestamp_valid and timestamp
\* from sample.timestamp().
SampleData(sample) ==
    [key |-> sample.key, bytes |-> sample.bytes, kind |-> sample.kind,
     encoding_id |-> encoding_to_id(sample.encoding),
     timestamp_valid |-> ZenohTimestamp(sample).valid,
     timestamp |-> [time_ntp64 |-> ZenohTimestamp(sample).time_ntp64, id |-> ZenohTimestamp(sample).id]]

\* Variant of the closure that builds the topic string as a temporary, which is
\* dropped before the foreign callback is called.
CString_new_Temporary(text) == [live |-> FALSE, text |-> text]

\* let key_cstr = CString::new(..): storage owned by a local of the closure.
CString_new(text) == [live |-> TRUE, text |-> text]

\* let payload = sample.payload().to_bytes(): storage owned by a local of the closure.
to_bytes(sample) == [live |-> TRUE, bytes |-> sample.bytes]

\* The locals key_cstr and payload of the closure, which the pointers of the view
\* refer to (key_cstr.as_ptr(), payload.as_ptr()).
Frame(sample) == [key_cstr |-> CString_new(sample.key), payload |-> to_bytes(sample)]

\* The closure ends: its locals go out of scope and their storage goes back to the
\* allocator.
drop(frame) == NoFrame

\* The declare call of t boxes its wrapper (Box::into_raw(Box::new(..Wrapper {..}))):
\* the registration the engine holds since the future ran is named by the address
\* of the box from now on, with the events that wait for it and the invocations
\* that have begun.
Register(t) ==
    LET a == ret'[t].v
        e == Early(t)
        move(f) == [x \in DOMAIN f |-> IF x = a THEN f[e] ELSE IF x = e THEN <<>> ELSE f[x]]
    IN  /\ IF res[t] = "ok"
           THEN /\ inbox' = move(inbox)
                /\ log' = move(log)
                /\ due' = move(due)
                /\ cb' = [w \in DOMAIN cb |-> IF cb[w].reg = e THEN [cb[w] EXCEPT !.reg = a] ELSE cb[w]]
           ELSE UNCHANGED <<inbox, log, due, cb>>
        /\ UNCHANGED <<args, gets, qfrom, qstat, rt, frames>>

\* Dropping the wrapper drops the registration: the engine delivers nothing more.
Unregister(p) ==
    /\ inbox' = [a \in DOMAIN inbox |-> IF a = p THEN <<>> ELSE inbox[a]]
    /\ log' = [a \in DOMAIN inbox |-> IF a = p THEN <<>> ELSE log[a]]
    /\ due' = [a \in DOMAIN inbox |-> IF a = p THEN <<>> ELSE due[a]]
    /\ UNCHANGED <<cb, args, gets, qfrom, qstat, rt, frames>>

\* The closure given to declare_subscriber(..).callback(..): the engine calls it with
\* the next sample of registration a on thread w; it builds the view and enters the
\* foreign callback.  The engine may call it on several threads at a time.
subscriber_callback(w, a) ==
    /\ proc = "running"
    /\ cb[w] = NoCb /\ pc[w] = "idle"
    /\ Registered(a, "SubscriberWrapper")
    /\ inbox[a] # <<>>
    /\ inbox' = [inbox EXCEPT ![a] = Tail(inbox[a])]
    /\ IF Terminable(Head(inbox[a]).key)
       THEN /\ frames' = [frames EXCEPT ![w] = Frame(Head(inbox[a]))]
            /\ cb' = [cb EXCEPT ![w] = [reg |-> a, view |-> SampleData(Head(inbox[a]))]]
            /\ log' = [log EXCEPT ![a] = Append(log[a], SampleData(Head(inbox[a])))]
       ELSE UNCHANGED <<cb, log, frames>>
    /\ UNCHANGED <<args, due, gets, qfrom, qstat, rt>>
    /\ UNCHANGED <<heap, stale, arc, pc, cur, res, err, ret, seen, helper, proc, ub>>

\* The foreign callback running on w returns and the closure that called it ends: the
\* view is dead and the locals it pointed into are dropped.
callback_return(w) ==
    /\ proc = "running"
    /\ cb[w] # NoCb /\ pc[w] = "idle"
    /\ "outer" \notin DOMAIN cb[w] /\ "loop" \notin DOMAIN cb[w]
    /\ cb' = [cb EXCEPT ![w] = NoCb]
    /\ frames' = [frames EXCEPT ![w] = drop(frames[w])]
    /\ UNCHANGED <<inbox, log, args, due, gets, qfrom, qstat, rt>>
    /\ UNCHANGED <<heap, stale, arc, pc, cur, res, err, ret, seen, helper, proc, ub>>

\* ------------------------------------------------------- SpecSub: publish / subscribe

\* No registration is owed MaxPuts events yet.
MorePuts == \A a \in Addr : Len(due[a]) < MaxPuts

\* A foreign thread opens one session, declares and undeclares subscribers and puts
\* empty and non-empty payloads; a remote peer publishes while a declare is still on
\* its way back; two engine threads deliver the samples.
NextSub ==
    \/ (\A a \in Addr : ~heap[a].live) /\ HasRoom(Addr) /\ zenoh_open("F", "ok", "none") /\ UNCHANGED evars
    \/ OpenReturn("F") /\ UNCHANGED evars /\ LowestFirst(Addr)
    \/ \E p \in Addr : Honest("zenoh_declare_subscriber", p) /\ HasRoom(Addr) /\ zenoh_declare_subscriber("F", p, "ok", "none") /\ UNCHANGED evars
    \/ DeclareReturn("F") /\ Register("F") /\ LowestFirst(Addr)
    \/ \E p \in Addr, pay \in {"null_zero", "data"} :
          MorePuts /\ Honest("zenoh_put", p) /\ zenoh_put("F", p, "ok", pay, "none") /\ Record("F", "ok", pay)
    \/ \E a \in EarlyRegs : due[a] = <<>> /\ peer_put(a, Encoding_default)
    \/ \E eng \in EngineOut : run_blocking("F", eng, FALSE, FALSE) /\ Route("F")
    \/ \E eng \in EngineOut : run_blocking_local("F", eng, FALSE, FALSE) /\ UNCHANGED evars
    \/ CodeReturn("F") /\ Forget("F")
    \/ \E w \in Workers, a \in Regs : subscriber_callback(w, a)
    \/ \E w \in Workers : callback_return(w)
    \/ \E p \in Addr : Honest("zenoh_undeclare_subscriber", p) /\ zenoh_undeclare_subscriber("F", p, "nop", FALSE) /\ Unregister(p)

SpecSub == Init /\ [][NextSub]_vars

\* The topic, payload and kind of an event or of a view.
Event(v) == [key |-> v.key, bytes |-> v.bytes, kind |-> v.kind]
Events(q) == [i \in 1..Len(q) |-> Event(q[i])]

\* The views still to come for registration a.
Pending(a) == [i \in 1..Len(inbox[a]) |-> SampleData(inbox[a][i])]

\* C15: a subscriber's callback is invoked once per put made on its topic since it
\* was declared, in put order, each time with the topic, the payload bytes and
\* kind = put of that put: what it has received, followed by what the engine still
\* holds for it, is exactly what the callers have put.
C15_OneCallbackPerPut ==
    \A a \in Addr :
        heap[a].live /\ heap[a].kind = "SubscriberWrapper"
            => /\ Events(log[a] \o Pending(a)) = Events(due[a])
               /\ \A i \in 1..Len(log[a]) : log[a][i].kind = "put"

\* A subscriber has received two puts with different payloads, in put order, and
\* nothing is left to deliver.
C15_Witness ==
    \E a \in Addr :
        /\ heap[a].live /\ heap[a].kind = "SubscriberWrapper"
        /\ inbox[a] = <<>> /\ \A w \in Workers : cb[w] = NoCb
        /\ Len(log[a]) = 2 /\ log[a][1].bytes = <<1>> /\ log[a][2].bytes = <<>>

\* C16: at most one callback invocation is in progress for a registration at any
\* time.
C16_SerialPerRegistration ==
    \A w \in Workers, v \in Workers :
        w # v /\ cb[w] # NoCb => cb[w].reg # cb[v].reg

\* C29: a callback invocation is in progress only while its registration stands:
\* after the declare call has returned the handle and before the undeclare call on
\* that handle has returned; once the undeclare has returned none is still running.
C29_CallbackWithinRegistration ==
    \A w \in Workers :
        cb[w] # NoCb =>
            /\ cb[w].reg \in Addr
            /\ heap[cb[w].reg].live /\ heap[cb[w].reg].kind = "SubscriberWrapper"

\* ------------------------------------------------------- SpecPut: put-style operations

\* A foreign thread calls every put-style operation with every kind of buffer, on a
\* session with a subscriber or a publisher.
NextPut ==
    \/ HasRoom(Addr) /\ zenoh_open("F", "ok", "none") /\ UNCHANGED evars
    \/ OpenReturn("F") /\ UNCHANGED evars /\ LowestFirst(Addr)
    \/ \E p \in Addr : Honest("zenoh_declare_subscriber", p) /\ HasRoom(Addr) /\ zenoh_declare_subscriber("F", p, "ok", "none") /\ UNCHANGED evars
    \/ \E p \in Addr : Honest("zenoh_declare_publisher", p) /\ HasRoom(Addr) /\ zenoh_declare_publisher("F", p, "ok", "none") /\ UNCHANGED evars
    \/ DeclareReturn("F") /\ Register("F") /\ LowestFirst(Addr)
    \/ \E p \in Addr, pay \in PayIn :
          MorePuts /\ Honest("zenoh_put", p) /\ zenoh_put("F", p, "ok", pay, "none") /\ Record("F", "ok", pay)
    \/ \E p \in Addr, pay \in PayIn :
          MorePuts /\ Honest("zenoh_put_with_encoding", p)
             /\ zenoh_put_with_encoding("F", p, "ok", pay, "none") /\ Record("F", "ok", pay)
    \/ \E p \in Addr, pay \in PayIn :
          MorePuts /\ Honest("zenoh_put_with_attachment", p)
             /\ zenoh_put_with_attachment("F", p, "ok", pay, "none") /\ Record("F", "ok", pay)
    \/ \E p \in Addr, pay \in PayIn :
          MorePuts /\ Honest("zenoh_publisher_put", p)
             /\ zenoh_publisher_put("F", p, pay, "none") /\ Record("F", "ok", pay)
    \/ \E p \in Addr, pay \in PayIn :
          MorePuts /\ Honest("zenoh_publisher_put_with_encoding", p)
             /\ zenoh_publisher_put_with_encoding("F", p, pay, "none") /\ Record("F", "ok", pay)
    \/ \E eng \in EngineOut : run_blocking("F", eng, FALSE, FALSE) /\ Route("F")
    \/ \E eng \in EngineOut : run_blocking_local("F", eng, FALSE, FALSE) /\ UNCHANGED evars
    \/ CodeReturn("F") /\ Forget("F")
    \/ \E w \in Workers, a \in Regs : subscriber_callback(w, a)
    \/ \E w \in Workers : callback_return(w)

SpecPut == Init /\ [][NextPut]_vars

\* C20: a put-style operation called with a null buffer and a nonzero length returns
\* NullPointer and hands nothing to the engine.
C20_NullBufferRejected ==
    \A t \in Threads :
        /\ pc[t] # "idle" /\ cur[t].op \in PutOps => args[t].pay # "null_nonzero"
        /\ pc[t] = "idle" /\ ret[t].op \in PutOps /\ args[t].pay = "null_nonzero"
              => ret[t] = RetCode(ret[t].op, NullPointer)

\* ------------------------------------------------------- SpecNull: destroy operations given null

\* The handles F declares on its session.
NullDeclares == {"zenoh_declare_publisher", "zenoh_declare_subscriber"}

\* The event side of a destroy operation: the operation and its pointer argument are
\* kept (call tells a call from the one before it), and the registration of the
\* wrapper that was dropped, if any, is gone.
Destroyed(t, op, p) ==
    /\ args' = [args EXCEPT ![t] = [key |-> "none", pay |-> "none", op |-> op, handle |-> p,
                                    call |-> IF "call" \in DOMAIN args[t] THEN 1 - args[t].call ELSE 0]]
    /\ inbox' = [a \in DOMAIN inbox |-> IF a = p THEN <<>> ELSE inbox[a]]
    /\ log' = [a \in DOMAIN inbox |-> IF a = p THEN <<>> ELSE log[a]]
    /\ due' = [a \in DOMAIN inbox |-> IF a = p THEN <<>> ELSE due[a]]
    /\ UNCHANGED <<cb, gets, qfrom, qstat, rt, frames>>

\* A foreign thread F opens one session and declares a publisher and then a
\* subscriber on it; a remote peer publishes, while F is in no call, and the
\* engine's thread W runs the subscriber callback.  F calls every destroy operation
\* with a null pointer, and W calls zenoh_undeclare_subscriber with a null pointer
\* from inside the callback; F also destroys the handles it holds, while the
\* subscriber has nothing to deliver.
NextNull ==
    \/ (\A a \in Cells : ~heap[a].live) /\ HasRoom(Cells) /\ zenoh_open("F", "ok", "none") /\ UNCHANGED evars
    \/ OpenReturn("F") /\ UNCHANGED evars /\ LowestFirst(Cells)
    \/ \E p \in Cells, op \in NullDeclares :
          /\ \A a \in Cells : heap[a].live => heap[a].kind # Makes(op)
          /\ op = "zenoh_declare_subscriber" => \E a \in Cells : heap[a].live /\ heap[a].kind = "PublisherWrapper"
          /\ Honest(op, p) /\ HasRoom(Cells) /\ DeclareCall("F", op, p, "ok", "none") /\ UNCHANGED evars
    \/ \E eng \in EngineOut : run_blocking("F", eng, FALSE, FALSE) /\ UNCHANGED evars
    \/ \E eng \in EngineOut : run_blocking_local("F", eng, FALSE, FALSE) /\ UNCHANGED evars
    \/ DeclareReturn("F") /\ Register("F") /\ LowestFirst(Cells)
    \/ \E a \in Cells : pc["F"] = "idle" /\ Len(due[a]) < MaxPuts /\ peer_put(a, Encoding_default)
    \/ \E a \in Regs : subscriber_callback("W", a)
    \/ callback_return("W")
    \/ \E op \in DestroyOps : Destroy("F", op, NULL, "nop", FALSE) /\ Destroyed("F", op, NULL)
    \/ /\ cb["W"] # NoCb
       /\ Destroy("W", "zenoh_undeclare_subscriber", NULL, "nop", FALSE)
       /\ Destroyed("W", "zenoh_undeclare_subscriber", NULL)
    \/ \E p \in Cells, op \in DestroyOps :
          /\ Honest(op, p) /\ cb["W"] = NoCb /\ \A a \in Cells : inbox[a] = <<>>
          /\ Destroy("F", op, p, "nop", FALSE) /\ Destroyed("F", op, p)

SpecNull == Init /\ [][NextNull]_vars

\* Thread t calls a destroy operation with a null pointer in this step.
NullDestroy(t) ==
    args'[t] # args[t] /\ "handle" \in DOMAIN args'[t] /\ args'[t].handle = NULL

\* The registrations the engine holds, with the events that wait for each and the
\* callback invocations each has had and has in progress.
Registrations ==
    [a \in Regs |-> [held |-> \E kind \in Kinds : Registered(a, kind),
                     waiting |-> inbox[a], had |-> log[a],
                     running |-> {w \in Threads : cb[w] # NoCb /\ cb[w].reg = a}]]

\* C4: a destroy operation called with a null pointer returns normally, to a process
\* that is still running, and leaves every wrapper, live or not, every reference
\* count and every registration as it was.
C4_NullDestroyChangesNothing ==
    [][\A t \in Threads :
          NullDestroy(t)
              => /\ proc' = "running" /\ pc'[t] = "idle"
                 /\ ret'[t] = RetVoid(args'[t].op, NULL)
                 /\ heap' = heap
                 /\ arc' = arc
                 /\ Registrations' = Registrations]_vars

\* W has called a destroy operation with a null pointer from inside the subscriber
\* callback, while the session, a publisher and the subscriber were live and an event
\* was waiting for the subscriber; all of that is still there.
C4_Witness ==
    /\ cb["W"] # NoCb /\ "handle" \in DOMAIN args["W"] /\ args["W"].handle = NULL
    /\ ret["W"] = RetVoid("zenoh_undeclare_subscriber", NULL)
    /\ \E a \in Cells : heap[a].live /\ heap[a].kind = "PublisherWrapper" /\ arc[heap[a].sess] = 2
    /\ \E a \in Cells : heap[a].live /\ heap[a].kind = "SubscriberWrapper" /\ cb["W"].reg = a
                             /\ inbox[a] # <<>> /\ log[a] # <<>>

\* ------------------------------------------------------- queries and replies

GetOps == {"zenoh_get", "zenoh_querier_get"}

\* The queryables the engine routes a query on connection s to.
Queryable(a, s) ==
    Registered(a, "QueryableWrapper") /\ RegSess(a) = s /\ ConnOpen(s)

\* Thread t is not inside the reply callback of a zenoh_get of its own.
OwnStream(t) == cb[t] = NoCb \/ "outer" \notin DOMAIN cb[t]

\* The reply stream g has nothing more to give.
Exhausted(g) == gets[g].open = 0 /\ gets[g].peers = 0 /\ gets[g].q = <<>>

\* The reply stream g is in use: the future of its call has not ended, or its query
\* is out and replies are still to come (zenoh_querier_get returns when the query is
\* sent; the engine keeps the closure and calls it for every reply).
InUse(g) == gets[g].call > 0 \/ (gets[g].st = "open" /\ ~Exhausted(g))

\* The streams named after g and there: g, Nested(g), ...
RECURSIVE Chain(_)
Chain(g) == IF g \in DOMAIN gets THEN {g} \cup Chain(Nested(g)) ELSE {}

\* The first stream named after g that is not in use.
RECURSIVE FreeFrom(_)
FreeFrom(g) == IF g \in DOMAIN gets /\ InUse(g) THEN FreeFrom(Nested(g)) ELSE g

\* The reply stream the next get-style call of thread t gets: the channel the call
\* creates is its own, the streams of the calls of t whose replies are still to come
\* stay as they are.
NewStream(t) == FreeFrom(t)

\* Of the stream top and the streams named after g that are there, the one of the
\* deepest call.
RECURSIVE Deepest(_, _)
Deepest(g, top) ==
    IF g \notin DOMAIN gets THEN top
    ELSE Deepest(Nested(g), IF gets[g].call > gets[top].call THEN g ELSE top)

\* The reply stream of the get-style call in progress on thread t: of the calls of t
\* whose future has not ended, the one made last (the call t makes from inside the
\* reply callback of its zenoh_get is made after that get and ends before it).
StreamOf(t) == Deepest(Nested(t), t)

\* How many get-style calls of thread t have a future that has not ended.
Level(t) == IF t \in DOMAIN gets THEN gets[StreamOf(t)].call ELSE 0

\* The engine routes no more than MaxQuery queries: those routed and those of the
\* get-style calls that have not sent theirs yet.
MoreQueries ==
    qstat.routed + Cardinality({t \in Alive : pc[t] = "pending" /\ cur[t].op \in GetOps
                                                   /\ gets[StreamOf(t)].st = "none"}) < MaxQuery

\* Variant of the queryable closure that lets the box drop at its end instead of
\* leaking it to the foreign callback.
NewQuery_Dropped(s) == FreeCell

\* Box::into_raw(Box::new(QueryWrapper { query: Box::new(query) }))
NewQuery(s) == [kind |-> "QueryWrapper", live |-> TRUE, sess |-> s]

\* Variant of the reply that sends no payload.
ReplySample_NoPayload(key, pay) ==
    [key |-> key, bytes |-> <<>>, kind |-> "put", encoding |-> Encoding_default,
     timestamp |-> NoTimestamp]

\* query.reply(key, data) with data = from_raw_parts(payload, payload_len).to_vec()
ReplySample(key, pay) ==
    [key |-> key, bytes |-> Buf(pay), kind |-> "put", encoding |-> Encoding_default,
     timestamp |-> NoTimestamp]

\* The Query boxed at q is dropped: the engine finalizes it for the get it answers.
Finalize(g, q) == IF qfrom[q] = "none" THEN g ELSE [g EXCEPT ![qfrom[q]].open = @ - 1]

\* The QueryWrapper at q has been freed: it answers no get any more.
Consume(q) ==
    /\ qfrom' = [qfrom EXCEPT ![q] = "none"]
    /\ qstat' = [qstat EXCEPT !.consumed = @ + 1]

\* A get-style call starts: it has a reply stream of its own, one deeper than the
\* calls of the thread that are in progress.  (A stream that is no longer in use is
\* forgotten when its name is taken again.)
Begin(t, op) ==
    /\ gets' = IF pc'[t] = "pending"
               THEN (NewStream(t) :> [NoGet EXCEPT !.op = op, !.call = Level(t) + 1]) @@ gets
               ELSE gets
    /\ UNCHANGED <<inbox, cb, log, args, due, qfrom, qstat, rt, frames>>

\* session.get(selector) / querier.get() has been accepted by the engine: the query
\* is routed to the queryables of the connection and to peers remote queryables.
\* The future of zenoh_get goes on to receive the replies; the future of
\* zenoh_querier_get ends here.
Send(t, peers) ==
    LET s == heap[cur[t].p].sess
        hit == {a \in DOMAIN inbox : Queryable(a, s)}
        g == StreamOf(t)
        query == [key |-> "ok", bytes |-> <<>>, kind |-> "query", from |-> g]
    IN  /\ gets' = [gets EXCEPT ![g].st = "open", ![g].open = Cardinality(hit), ![g].peers = peers,
                                ![g].call = IF cur[t].op = "zenoh_get" THEN @ ELSE 0]
        /\ inbox' = [a \in DOMAIN inbox |-> IF a \in hit THEN Append(inbox[a], query) ELSE inbox[a]]
        /\ qstat' = [qstat EXCEPT !.routed = @ + Cardinality(hit) + peers]
        /\ UNCHANGED <<cb, log, args, due, qfrom, rt, frames>>

\* The future of zenoh_get has run handle.session.get(selector_str).await with
\* success and waits on reply_receiver.recv_async().
get_send(t, peers) ==
    /\ proc = "running" /\ pc[t] = "pending" /\ cur[t].op = "zenoh_get"
    /\ Driver(t) # {}
    /\ gets[StreamOf(t)].st = "none"
    /\ heap[cur[t].p].live /\ ConnOpen(heap[cur[t].p].sess)
    /\ Send(t, peers)
    /\ UNCHANGED <<heap, stale, arc, pc, cur, res, err, ret, seen, helper, proc, ub>>

\* The engine routes the query of a remote get to the queryable at a.
peer_query(a) ==
    /\ proc = "running"
    /\ MoreQueries
    /\ Queryable(a, RegSess(a))
    /\ inbox' = [inbox EXCEPT ![a] = Append(@, [key |-> "ok", bytes |-> <<>>, kind |-> "query", from |-> "none"])]
    /\ qstat' = [qstat EXCEPT !.routed = @ + 1]
    /\ UNCHANGED <<cb, log, args, due, gets, qfrom, rt, frames>>
    /\ UNCHANGED <<heap, stale, arc, pc, cur, res, err, ret, seen, helper, proc, ub>>

\* A remote queryable has answered the query of stream g.
peer_reply(g) ==
    /\ proc = "running"
    /\ gets[g].st = "open" /\ gets[g].peers > 0
    /\ gets' = [gets EXCEPT ![g].peers = @ - 1,
                            ![g].q = Append(@, [key |-> "ok", bytes |-> <<1>>, kind |-> "put",
                                                 encoding |-> Encoding_default,
                                                 timestamp |-> NoTimestamp])]
    /\ UNCHANGED <<inbox, cb, log, args, due, qfrom, qstat, rt, frames>>
    /\ UNCHANGED <<heap, stale, arc, pc, cur, res, err, ret, seen, helper, proc, ub>>

\* if let Ok(sample) = reply.result(), and CString::new(sample.key_expr()) is Ok.
Deliverable(reply) == reply.kind # "err" /\ Terminable(reply.key)

\* The foreign callback of t's zenoh_get is entered on t, inside the future t
\* drives: t can make calls of its own from there, and its call in progress waits
\* in outer until the callback returns.
Enter(t, reply) ==
    /\ frames' = [frames EXCEPT ![t] = Frame(reply)]
    /\ cb' = [cb EXCEPT ![t] = [reg |-> 0, view |-> SampleData(reply),
                                 outer |-> [cur |-> cur[t], helper |-> helper[t]]]]
    /\ pc' = [pc EXCEPT ![t] = "idle"]
    /\ cur' = [cur EXCEPT ![t] = NoCall]
    /\ helper' = [helper EXCEPT ![t] = NoHelper]
    /\ ret' = [ret EXCEPT ![t] = RetNone]
    /\ UNCHANGED <<heap, stale, arc, res, err, seen, proc, ub, inbox, log, due, args, rt>>

\* The foreign callback of t's zenoh_get is entered on the thread h std::thread::scope
\* has spawned for the call, inside the future that thread drives with
\* RUNTIME.block_on; t stays blocked in rx.recv().  h is a thread like any other:
\* the foreign code can make calls on it from the callback, it is inside the
\* execution context there, and it has a LAST_ERROR of its own, which is what the
\* future has left in it.  With the first callback of the call h gets its records;
\* they stay until the future has ended.
EnterOnHelper(t, reply) ==
    LET h == Spawned(t)
        e == Early(h)
        put(f, x, v) == IF x \in DOMAIN f THEN f ELSE (x :> v) @@ f
    IN  /\ frames' = (h :> Frame(reply)) @@ frames
        /\ helper' = put([helper EXCEPT ![t] = [st |-> "calling", slot |-> helper[t].slot,
                                                 view |-> SampleData(reply)]], h, NoHelper)
        /\ cb' = (h :> [reg |-> 0, view |-> SampleData(reply), loop |-> t]) @@ cb
        /\ pc' = put(pc, h, "idle")
        /\ cur' = put(cur, h, NoCall)
        /\ res' = put(res, h, "none")
        /\ err' = put(err, h, helper[t].slot)
        /\ ret' = put(ret, h, RetNone)
        /\ seen' = put(seen, h, <<>>)
        /\ args' = put(args, h, NoArgs)
        /\ rt' = [rt EXCEPT !.on = put(@, h, 0)]
        /\ inbox' = put(inbox, e, <<>>)
        /\ log' = put(log, e, <<>>)
        /\ due' = put(due, e, <<>>)
        /\ UNCHANGED <<heap, stale, arc, proc, ub>>

\* Variant of the reply loop that leaves the loop at the first reply it cannot hand
\* to the foreign callback.
get_reply_enter_StopsOnError(t) ==
    /\ proc = "running" /\ pc[t] = "pending" /\ cur[t].op = "zenoh_get"
    /\ Driver(t) # {} /\ ~Calling(t)
    /\ LET g == StreamOf(t)
           reply == Head(gets[g].q)
       IN  /\ gets[g].st = "open" /\ gets[g].q # <<>>
           /\ IF Deliverable(reply)
              THEN /\ gets' = [gets EXCEPT ![g].q = Tail(@), ![g].got = Append(@, SampleData(reply))]
                   /\ IF Driver(t) = {t} THEN Enter(t, reply) ELSE EnterOnHelper(t, reply)
              ELSE /\ gets' = [gets EXCEPT ![g].q = <<>>, ![g].peers = 0]
                   /\ UNCHANGED <<cb, frames, heap, stale, arc, pc, cur, res, err, ret, seen, helper, proc, ub>>
                   /\ UNCHANGED <<inbox, log, args, due, rt>>
    /\ UNCHANGED <<qfrom, qstat>>

\* zenoh_get, one turn of while let Ok(reply) = reply_receiver.recv_async().await on
\* the thread that drives the future, the caller outside the execution context and
\* the thread spawned for the call inside it: an error reply is passed over, a topic
\* that CString::new rejects takes the continue, otherwise the view is built and the
\* foreign callback is called on that thread.
get_reply_enter(t) ==
    /\ proc = "running" /\ pc[t] = "pending" /\ cur[t].op = "zenoh_get"
    /\ Driver(t) # {} /\ ~Calling(t)
    /\ LET g == StreamOf(t)
           reply == Head(gets[g].q)
       IN  /\ gets[g].st = "open" /\ gets[g].q # <<>>
           /\ IF Deliverable(reply)
              THEN /\ gets' = [gets EXCEPT ![g].q = Tail(@), ![g].got = Append(@, SampleData(reply))]
                   /\ IF Driver(t) = {t} THEN Enter(t, reply) ELSE EnterOnHelper(t, reply)
              ELSE /\ gets' = [gets EXCEPT ![g].q = Tail(@)]
                   /\ UNCHANGED <<cb, frames, heap, stale, arc, pc, cur, res, err, ret, seen, helper, proc, ub>>
                   /\ UNCHANGED <<inbox, log, args, due, rt>>
    /\ UNCHANGED <<qfrom, qstat>>

\* The foreign callback returns into the loop of zenoh_get; c_sample, payload and
\* key_cstr go out of scope at the end of the loop body and the future goes on: the
\* call of t on t's own thread, the loop on the spawned thread otherwise.  The
\* callback returns when the call it has made, if any, has returned; what that call
\* left in the LAST_ERROR of the spawned thread stays there.
get_reply_return(t) ==
    /\ proc = "running"
    /\ IF Calling(t)
       THEN /\ pc[Spawned(t)] = "idle"
            /\ helper' = [helper EXCEPT ![t] = [st |-> "spawned", slot |-> err[Spawned(t)]]]
            /\ frames' = [frames EXCEPT ![Spawned(t)] = drop(frames[Spawned(t)])]
            /\ cb' = [cb EXCEPT ![Spawned(t)] = NoCb]
            /\ UNCHANGED <<pc, cur>>
       ELSE /\ pc[t] = "idle"
            /\ cb[t] # NoCb /\ "outer" \in DOMAIN cb[t]
            /\ cb' = [cb EXCEPT ![t] = NoCb]
            /\ frames' = [frames EXCEPT ![t] = drop(frames[t])]
            /\ pc' = [pc EXCEPT ![t] = "pending"]
            /\ cur' = [cur EXCEPT ![t] = cb[t].outer.cur]
            /\ helper' = [helper EXCEPT ![t] = cb[t].outer.helper]
    /\ UNCHANGED <<inbox, log, args, due, gets, qfrom, qstat, rt>>
    /\ UNCHANGED <<heap, stale, arc, res, err, ret, seen, proc, ub>>

\* zenoh_querier_get, the closure given to handle.querier.get().callback(..), called
\* by the engine on its thread w with the next reply of stream g: an error reply
\* and a topic that CString::new rejects return without calling the foreign callback.
querier_reply_enter(w, g) ==
    /\ proc = "running"
    /\ cb[w] = NoCb /\ pc[w] = "idle"
    /\ gets[g].op = "zenoh_querier_get" /\ gets[g].st = "open" /\ gets[g].q # <<>>
    /\ LET reply == Head(gets[g].q)
       IN  IF Deliverable(reply)
           THEN /\ gets' = [gets EXCEPT ![g].q = Tail(@), ![g].got = Append(@, SampleData(reply))]
                /\ cb' = [cb EXCEPT ![w] = [reg |-> 0, view |-> SampleData(reply)]]
                /\ frames' = [frames EXCEPT ![w] = Frame(reply)]
           ELSE /\ gets' = [gets EXCEPT ![g].q = Tail(@)]
                /\ UNCHANGED <<cb, frames>>
    /\ UNCHANGED <<inbox, log, args, due, qfrom, qstat, rt>>
    /\ UNCHANGED <<heap, stale, arc, pc, cur, res, err, ret, seen, helper, proc, ub>>

\* The event side of the end of the spawned thread h: its callback locals and the
\* records the engine and the callbacks kept for it are gone with it.
Ended(h) ==
    /\ cb' = Without(cb, h)
    /\ args' = Without(args, h)
    /\ rt' = [rt EXCEPT !.on = Without(@, h)]
    /\ frames' = IF h \in Runners THEN frames ELSE Without(frames, h)
    /\ inbox' = Without(inbox, Early(h))
    /\ log' = Without(log, Early(h))
    /\ due' = Without(due, Early(h))

\* What the end of the bridged future of a get-style call means for its stream.
\* zenoh_get: the future ends with Ok when recv_async() fails, which is when the
\* stream is exhausted, and with Err when session.get() failed.  zenoh_querier_get:
\* the future ends when the query is sent.
Completed(t, peers) ==
    /\ cur[t].op \in GetOps
    /\ IF cur[t].op = "zenoh_get"
       THEN /\ IF res'[t] = "ok" THEN gets[StreamOf(t)].st = "open" /\ Exhausted(StreamOf(t))
                                 ELSE gets[StreamOf(t)].st = "none"
            /\ peers = 0
            /\ gets' = [gets EXCEPT ![StreamOf(t)].st = "done", ![StreamOf(t)].call = 0]
            /\ Ended(Spawned(t))
            /\ UNCHANGED <<qfrom, qstat>>
       ELSE IF res'[t] = "ok" THEN Send(t, peers)
       ELSE /\ peers = 0
            /\ gets' = [gets EXCEPT ![StreamOf(t)].st = "done", ![StreamOf(t)].call = 0]
            /\ UNCHANGED <<inbox, cb, log, args, due, qfrom, qstat, rt, frames>>

\* The closure given to declare_queryable(..).callback(..): the engine calls it on
\* thread w with the next query of registration a; it boxes the query and enters the
\* foreign callback with the raw pointer.
queryable_callback(w, a) ==
    /\ proc = "running"
    /\ cb[w] = NoCb /\ pc[w] = "idle"
    /\ Registered(a, "QueryableWrapper")
    /\ inbox[a] # <<>>
    /\ \E q \in Alloc :
       LET query == Head(inbox[a])
       IN  /\ heap' = [heap EXCEPT ![q] = NewQuery(RegSess(a))]
           /\ stale' = [stale EXCEPT ![q] = NoStale]
           /\ qfrom' = [qfrom EXCEPT ![q] = query.from]
           /\ qstat' = [qstat EXCEPT !.delivered = @ + 1]
           /\ cb' = [cb EXCEPT ![w] = [reg |-> a, view |-> [key |-> query.key, bytes |-> <<>>, kind |-> "query"]]]
           /\ inbox' = [inbox EXCEPT ![a] = Tail(inbox[a])]
    /\ UNCHANGED <<log, args, due, gets, rt, frames>>
    /\ UNCHANGED <<arc, pc, cur, res, err, ret, seen, helper, proc, ub>>

\* The event side of the entry of zenoh_query_reply: the arguments are kept (call
\* tells a call from the one before it); when the box was dropped on the way out the
\* query is finalized.
Replying(t, q, key, pay) ==
    LET dropped == q # NULL /\ heap[q].live /\ ~heap'[q].live
        before == IF "call" \in DOMAIN args[t] THEN args[t].call ELSE 0
    IN  /\ args' = [args EXCEPT ![t] = [key |-> key, pay |-> pay, query |-> q, call |-> 1 - before]]
        /\ gets' = IF dropped THEN Finalize(gets, q) ELSE gets
        /\ IF dropped THEN Consume(q) ELSE UNCHANGED <<qfrom, qstat, rt, frames>>
        /\ UNCHANGED <<inbox, cb, log, due, rt, frames>>

\* The future of zenoh_query_reply has run query_handle.query.reply(key, data).await
\* and dropped the query: an accepted reply joins the stream of the get the query came
\* from, and the query is finalized.
Replied(t) ==
    LET q == cur[t].p
        g == qfrom[q]
        reply == ReplySample(args[t].key, args[t].pay)
        passed == [key |-> args[t].key, bytes |-> Buf(args[t].pay), kind |-> "put"]
    IN  /\ cur[t].op \in QueryOps
        /\ gets' = IF g = "none" THEN gets
                   ELSE IF res'[t] = "ok"
                   THEN [gets EXCEPT ![g].open = @ - 1, ![g].q = Append(@, reply),
                                     ![g].sent = Append(@, passed)]
                   ELSE [gets EXCEPT ![g].open = @ - 1]
        /\ Consume(q)
        /\ UNCHANGED <<inbox, cb, log, args, due, rt, frames>>

\* The event side of zenoh_query_drop: the dropped query is finalized unanswered.
Dropped(q) ==
    /\ gets' = IF q = NULL THEN gets ELSE Finalize(gets, q)
    /\ IF q = NULL THEN UNCHANGED <<qfrom, qstat, rt, frames>> ELSE Consume(q)
    /\ UNCHANGED <<inbox, cb, log, args, due, rt, frames>>

\* ------------------------------------------------------- SpecErr: the diagnostic slot

\* Thread t is a foreign thread that is not inside a callback: its get is the
\* outermost call on the thread.
Outermost(t) == t \notin Workers /\ cb[t] = NoCb

\* No get of F has been answered by a peer.
Unanswered == gets["F"].st = "none" /\ gets["F"].got = <<>> /\ cb["F"] = NoCb

\* Thread t may act: the context's thread W calls while no get of F has been answered.
Turn(t) == t = "W" => Unanswered

\* Two callers keep the handle contract, with one session at a time, but pass every
\* kind of string; the engine may fail any operation, with an error whose text may
\* hold a NUL byte; a remote queryable answers a
\* get of F, and F calls zenoh_get again from the reply callback.  err[t] is what
\* zenoh_last_error returns on thread t.
NextErr ==
    \/ \E cfg \in CfgIn :
          /\ Outermost("F") /\ \A a \in Addr : ~heap[a].live
          /\ HasRoom(Addr) /\ zenoh_open("F", cfg, "none") /\ UNCHANGED evars
    \/ OpenReturn("F") /\ UNCHANGED evars /\ LowestFirst(Addr)
    \/ \E t \in Callers, p \in Ptr, key \in KeyIn :
          /\ Turn(t) /\ (Outermost(t) => gets[t].got = <<>>)
          /\ Honest("zenoh_get", p) /\ zenoh_get(t, p, key, "none")
          /\ IF Outermost(t) THEN Begin(t, "zenoh_get") ELSE UNCHANGED evars
    \/ pc["W"] = "idle" /\ gets["F"].got = <<>> /\ get_send("F", 1)
    \/ peer_reply("F")
    \/ get_reply_enter("F")
    \/ get_reply_return("F")
    \/ \E t \in Callers : Turn(t) /\ CodeReturn(t) /\ UNCHANGED evars
    \/ \E eng \in EngineOutAnyText : run_blocking("F", eng, FALSE, FALSE) /\ UNCHANGED evars
    \/ \E t \in Callers, eng \in EngineOutAnyText :
          /\ Turn(t) /\ run_blocking_local(t, eng, FALSE, FALSE)
          /\ IF Outermost(t) THEN Completed(t, 0) ELSE UNCHANGED evars
    \/ \E t \in Callers, p \in Ptr :
          /\ Turn(t) /\ cb[t] = NoCb
          /\ Honest("zenoh_close", p) /\ zenoh_close(t, p, "nop", FALSE) /\ UNCHANGED evars
    \/ \E t \in Callers : Turn(t) /\ cb[t] = NoCb /\ zenoh_query_drop(t, NULL, "nop", FALSE) /\ UNCHANGED evars

SpecErr == Init /\ [][NextErr]_vars

\* The thread's last call has returned to the foreign caller.
Returned(t) == pc[t] = "idle" /\ ret[t].k \in {"ptr", "code", "void", "options"}

\* C6: every entry point, the destroy operations included, clears the calling
\* thread's slot first, so after a call that did not fail the slot is empty and
\* last-error returns null.
C6_SlotEmptyAfterSuccess ==
    \A t \in Threads : Returned(t) /\ ~Failed(ret[t]) => err[t] = <<>>

\* C7: after a call that returned a non-ok status code or a null handle, the calling
\* thread's slot holds a message, on both bridge paths.
C7_MessageAfterFailure ==
    \A t \in Threads : Returned(t) /\ Failed(ret[t]) => err[t] # <<>>

\* C8: a call made on one thread never changes the slot of another calling thread,
\* and no message of a call is stored in a slot other than the caller's (such as the
\* slot of a helper thread of the bridge).
C8_SlotPerCallingThread ==
    [][/\ \A a \in Threads, b \in Threads :
             a # b /\ (pc'[a] # pc[a] \/ ret'[a] # ret[a]) => err'[b] = err[b]
       /\ \A t \in Threads : helper'[t].slot = <<>>]_vars

\* Every message an entry point can put into the slot: the messages of its own
\* set_error calls (format arguments left out).
MsgsOf(op) ==
    {PanicMsg(op)}
    \cup (IF op = "zenoh_open"
          THEN {"Invalid UTF-8 in config", "Config parse error", FailMsg(op)}
          ELSE {NullMsg(op)})
    \cup (IF op \in DeclareOps \cup SessionCodeOps \cup {"zenoh_query_reply"}
          THEN {KeyNullMsg(op), KeyUtf8Msg(op)} ELSE {})
    \cup (IF op \in DeclareOps \cup SessionCodeOps \cup PublisherOps \cup QuerierOps
                     \cup {"zenoh_query_reply"}
          THEN {FailMsg(op)} ELSE {})
    \cup (IF ChecksPayload(op) THEN {"Payload pointer is null but length > 0"} ELSE {})
    \cup (IF op = "zenoh_query_reply" THEN {"Payload pointer is null"} ELSE {})
    \cup (IF op = "zenoh_query_selector" THEN {"Invalid string: nul byte found"} ELSE {})
    \cup (IF op = "zenoh_session_zid" THEN {"Failed to create ZID string"} ELSE {})

\* C9: a slot holds at most one message and reflects only the thread's most recent
\* call: a message of that call if it failed, nothing if it succeeded.
C9_SlotReflectsLastCall ==
    \A t \in Threads :
        /\ Len(err[t]) <= 1
        /\ Returned(t) =>
              IF Failed(ret[t]) THEN \E m \in MsgsOf(ret[t].op) : err[t] = <<m>>
              ELSE err[t] = <<>>

\* ------------------------------------------------------- SpecReenter: calls from callbacks

\* A thread running a foreign callback.
InCallback(w) == w \in DOMAIN cb /\ cb[w] # NoCb

\* The threads that make calls from callbacks: the threads of the program and the
\* thread spawned for the zenoh_get of W.
ReenterThreads == Threads \cup {Spawned("W")}

\* The threads whose zenoh_get is answered.
ReenterGets == {"G", "W"}

\* None of them has called zenoh_get.
NoGetYet == \A t \in ReenterGets : gets[t] = NoGet

\* A foreign thread opens one session and then either declares one subscriber and
\* puts, or leaves the session to a second foreign thread G that calls zenoh_get.  The
\* foreign callback calls back into the library: a put (run_blocking) from the
\* subscriber callback on W, a get (run_blocking_local) from the subscriber callback
\* on V, a put from the reply callback that zenoh_get enters on G.  On a session
\* without subscriber the engine's thread W, in no callback, calls zenoh_get; its
\* reply callback runs on the thread spawned for the call and calls zenoh_put from
\* there.  The future of such a call may panic.
NextReenter ==
    \/ (\A a \in Addr : ~heap[a].live) /\ HasRoom(Addr) /\ zenoh_open("F", "ok", "none") /\ UNCHANGED evars
    \/ OpenReturn("F") /\ UNCHANGED evars /\ Within(Addr)
    \/ \E p \in Addr :
          /\ NoGetYet /\ \A a \in Addr : heap[a].live => a = p
          /\ Honest("zenoh_declare_subscriber", p) /\ HasRoom(Addr) /\ zenoh_declare_subscriber("F", p, "ok", "none") /\ UNCHANGED evars
    \/ DeclareReturn("F") /\ Register("F") /\ Within(Addr)
    \/ \E p \in Addr :
          /\ NoGetYet /\ MorePuts /\ Honest("zenoh_put", p)
          /\ zenoh_put("F", p, "ok", "data", "none") /\ Record("F", "ok", "data")
    \/ \E p \in Addr :
          /\ InCallback("W") /\ MorePuts /\ Honest("zenoh_put", p)
          /\ zenoh_put("W", p, "ok", "null_zero", "none") /\ Record("W", "ok", "null_zero")
    \/ \E p \in Addr :
          /\ InCallback("V") /\ Honest("zenoh_get", p)
          /\ zenoh_get("V", p, "ok", "none") /\ UNCHANGED evars
    \/ \E p \in Addr :
          /\ Outermost("G") /\ NoGetYet /\ Honest("zenoh_get", p)
          /\ pc["F"] = "idle" /\ ret["F"].op = "zenoh_open" /\ \A a \in Addr : heap[a].live => a = p
          /\ zenoh_get("G", p, "ok", "none") /\ Begin("G", "zenoh_get")
    \/ \E p \in Addr :
          /\ pc["W"] = "idle" /\ ~InCallback("W") /\ NoGetYet /\ Honest("zenoh_get", p)
          /\ pc["F"] = "idle" /\ ret["F"].op = "zenoh_open" /\ \A a \in Addr : heap[a].live => a = p
          /\ zenoh_get("W", p, "ok", "none") /\ Begin("W", "zenoh_get")
    \/ \E t \in ReenterGets : get_send(t, 1)
    \/ \E t \in ReenterGets : peer_reply(t)
    \/ \E t \in ReenterGets : get_reply_enter(t)
    \/ \E t \in ReenterGets : get_reply_return(t)
    \/ \E t \in {"G", Spawned("W")}, p \in Addr :
          /\ InCallback(t) /\ MorePuts /\ Honest("zenoh_put", p)
          /\ zenoh_put(t, p, "ok", "null_zero", "none") /\ Record(t, "ok", "null_zero")
    \/ \E t \in ReenterThreads, fault \in BOOLEAN :
          t \in Alive /\ run_blocking(t, "ok", InCtx(t) /\ fault, FALSE) /\ Route(t)
    \/ \E t \in Threads, fault \in BOOLEAN :
          /\ run_blocking_local(t, "ok", fault, FALSE)
          /\ IF t \in ReenterGets THEN Completed(t, 0) ELSE UNCHANGED evars
    \/ \E t \in ReenterThreads : t \in Alive /\ CodeReturn(t) /\ Forget(t)
    \/ \E w \in Workers, a \in Regs : subscriber_callback(w, a)
    \/ \E w \in Workers : callback_return(w)

\* Scheduling: the thread that drives a bridged future (the caller outside the
\* context, the thread spawned by std::thread::spawn / std::thread::scope inside it)
\* is an operating-system thread of its own and gets to run, and a caller whose
\* result is there gets to return.
FairReenter ==
    /\ \A t \in ReenterThreads :
          /\ WF_vars(\E fault \in BOOLEAN :
                        t \in Alive /\ run_blocking(t, "ok", InCtx(t) /\ fault, FALSE) /\ Route(t))
          /\ WF_vars(t \in Alive /\ CodeReturn(t) /\ Forget(t))
    /\ \A t \in Threads :
          WF_vars(\E fault \in BOOLEAN :
                     /\ run_blocking_local(t, "ok", fault, FALSE)
                     /\ IF t \in ReenterGets THEN Completed(t, 0) ELSE UNCHANGED evars)

SpecReenter == Init /\ [][NextReenter]_vars /\ FairReenter

\* C13: a call made from inside a callback returns, and returns while the callback
\* invocation that made it is still in progress, whatever the other threads of the
\* context are doing.
C13_ReentrantCallReturns ==
    /\ \A t \in ReenterThreads :
          (InCallback(t) /\ pc[t] # "idle") ~> (InCallback(t) /\ pc[t] = "idle")
    /\ [][\A t \in ReenterThreads : InCallback(t) /\ pc[t] # "idle" => InCallback(t)']_vars

\* Every thread of the context is inside a callback: one has made a call that has
\* returned, the other is blocked in the bridge.
C13_Witness ==
    /\ InCallback("W") /\ pc["W"] = "idle" /\ ret["W"].op = "zenoh_put"
    /\ InCallback("V") /\ pc["V"] = "pending"

\* ------------------------------------------------------- SpecQuery: queryables and gets

\* No call in flight uses the query boxed at q.
Unused(q) == \A u \in Threads : cur[u].p # q

\* The QueryWrapper boxes the caller holds.
Queries == {q \in Cells : heap[q].live /\ heap[q].kind = "QueryWrapper"}

\* The topic and buffer arguments that take zenoh_query_reply down each of its return
\* paths.
ReplyIn == {<<"ok", "data">>, <<"null", "data">>, <<"ok", "null_zero">>, <<"bad_utf8", "data">>}

\* A foreign thread F opens one session, declares and undeclares a queryable and
\* closes the session; a foreign thread G calls zenoh_get and remote peers send
\* queries; the engine's thread W enters the queryable callback, which answers with
\* zenoh_query_reply or keeps the query; F drops queries with zenoh_query_drop.
NextQuery ==
    \/ (\A a \in Addr : ~heap[a].live) /\ HasRoom(Addr) /\ zenoh_open("F", "ok", "none") /\ UNCHANGED evars
    \/ OpenReturn("F") /\ UNCHANGED evars /\ LowestFirst(Addr)
    \/ \E p \in Addr :
          /\ \A a \in Addr : heap[a].live => a = p
          /\ Honest("zenoh_declare_queryable", p) /\ HasRoom(Addr) /\ zenoh_declare_queryable("F", p, "ok", "none") /\ UNCHANGED evars
    \/ DeclareReturn("F") /\ Register("F") /\ LowestFirst(Addr)
    \/ \E p \in Addr :
          /\ MoreQueries /\ Honest("zenoh_get", p) /\ cb["G"] = NoCb
          /\ zenoh_get("G", p, "ok", "none") /\ Begin("G", "zenoh_get")
    \/ get_send("G", 0)
    \/ get_reply_enter("G")
    \/ get_reply_return("G")
    \/ \E a \in Regs : peer_query(a)
    \/ run_blocking_local("G", "ok", FALSE, FALSE) /\ Completed("G", 0)
    \/ run_blocking_local("F", "ok", FALSE, FALSE) /\ UNCHANGED evars
    \/ run_blocking("F", "ok", FALSE, FALSE) /\ UNCHANGED evars
    \/ \E a \in Regs : queryable_callback("W", a) /\ LowestFirst(QAddr)
    \/ callback_return("W")
    \/ \E q \in QAddr, kp \in ReplyIn :
          /\ InCallback("W") /\ Honest("zenoh_query_reply", q) /\ Unused(q)
          /\ zenoh_query_reply("W", q, kp[1], kp[2], "none") /\ Replying("W", q, kp[1], kp[2])
    \/ \E eng \in EngineOut : run_blocking("W", eng, FALSE, FALSE) /\ Replied("W")
    \/ \E t \in {"G", "W"} : CodeReturn(t) /\ UNCHANGED evars
    \/ \E q \in QAddr :
          /\ Honest("zenoh_query_drop", q)
          /\ zenoh_query_drop("F", q, "nop", FALSE) /\ Dropped(q)
    \/ \E p \in Addr :
          /\ inbox[p] = <<>> /\ Honest("zenoh_undeclare_queryable", p)
          /\ zenoh_undeclare_queryable("F", p, "nop", FALSE) /\ Unregister(p)
    \/ \E p \in Addr :
          /\ \A a \in Addr : inbox[a] = <<>>
          /\ Honest("zenoh_close", p) /\ zenoh_close("F", p, "nop", FALSE) /\ UNCHANGED evars

SpecQuery == Init /\ [][NextQuery]_vars

\* Thread t returns from a zenoh_query_reply call in this step.
ReplyReturns(t) ==
    /\ pc'[t] = "idle" /\ ret'[t].op = "zenoh_query_reply"
    /\ pc[t] = "ran" \/ (pc[t] = "idle" /\ args'[t] # args[t])

\* C17: zenoh_query_reply consumes its query handle on every return path: when it
\* returns, with whatever status, the QueryWrapper it was given has been freed.
C17_ReplyConsumesQuery ==
    [][\A t \in Threads :
          ReplyReturns(t) /\ args'[t].query # NULL => ~heap'[args'[t].query].live]_vars

\* C19: every invocation of the queryable callback boxes one query, and a boxed query
\* is freed by zenoh_query_reply or zenoh_query_drop only: the boxes allocated are
\* those delivered less those consumed, whatever was returned from, undeclared or
\* closed since.
C19_QueriesOwnedByCaller ==
    /\ [](Cardinality(Queries) = qstat.delivered - qstat.consumed)
    /\ [][\A q \in Queries :
            ~heap'[q].live
                => \E t \in Threads :
                      \/ ret'[t] = RetVoid("zenoh_query_drop", q) /\ qstat' # qstat
                      \/ ReplyReturns(t) /\ args'[t].query = q
                      \/ cur[t].op = "zenoh_query_reply" /\ cur[t].p = q /\ pc'[t] = "ran"]_vars

\* A query is still allocated after the callback it was delivered to has returned,
\* its queryable has been undeclared and the session closed, and after another query
\* was received and dropped.
C19_Witness ==
    /\ \A a \in Addr : ~heap[a].live
    /\ \A w \in Workers : ~InCallback(w)
    /\ Cardinality(Queries) = 1
    /\ qstat.delivered = 2 /\ qstat.consumed = 1
    /\ ret["F"].op = "zenoh_close"

\* Scheduling: the thread that called zenoh_get drives its future itself
\* (RUNTIME.block_on) and is an operating-system thread that gets to run: a queued
\* reply is received, an exhausted stream ends the future, a finished call returns.
\* The reply callback runs on that thread inside the loop of the future, and the
\* foreign code returns from it.
FairQuery ==
    /\ WF_vars(get_reply_enter("G"))
    /\ WF_vars(get_reply_return("G"))
    /\ WF_vars(run_blocking_local("G", "ok", FALSE, FALSE) /\ Completed("G", 0))
    /\ WF_vars(CodeReturn("G") /\ UNCHANGED evars)

SpecQueryFair == Init /\ [][NextQuery]_vars /\ FairQuery

\* The views zenoh_get will still build from the replies queued for t's call.
Queued(t) == [i \in 1..Len(gets[t].q) |-> SampleData(gets[t].q[i])]

\* C18: the callback of a get is invoked once for every reply a queryable made to its
\* query, with the topic and the payload bytes passed to zenoh_query_reply, and not
\* at all for a query that was dropped; once every query of the get has been replied
\* to or dropped, the get returns.
C18_ReplyReachesGet ==
    /\ [](\A t \in Threads :
            gets[t].op = "zenoh_get"
                => /\ Events(gets[t].got \o Queued(t)) = gets[t].sent
                   /\ gets[t].st = "done" => Events(gets[t].got) = gets[t].sent)
    /\ \A t \in {"G"} :
          (pc[t] = "pending" /\ gets[t].st = "open" /\ gets[t].open = 0)
              ~> (pc[t] = "idle" /\ cb[t] = NoCb)

\* A get has returned Ok after its callback was invoked once, with the topic and the
\* bytes the queryable callback replied with.
C18_Witness ==
    /\ pc["G"] = "idle" /\ cb["G"] = NoCb /\ ret["G"] = RetCode("zenoh_get", Ok)
    /\ gets["G"].st = "done"
    /\ Events(gets["G"].got) = <<[key |-> "ok", bytes |-> <<1>>, kind |-> "put"]>>

\* ------------------------------------------------------- SpecGet: the two get-style calls

\* Remote queryables that may answer one query.
Peers == 0..1

\* A foreign thread F opens one session, declares a querier and calls
\* zenoh_querier_get, again while the replies of its earlier call are still to come;
\* a foreign thread G calls zenoh_get; remote queryables answer.
NextGet ==
    \/ (\A a \in Addr : ~heap[a].live) /\ HasRoom(Addr) /\ zenoh_open("F", "ok", "none") /\ UNCHANGED evars
    \/ run_blocking("F", "ok", FALSE, FALSE) /\ UNCHANGED evars
    \/ OpenReturn("F") /\ UNCHANGED evars /\ Within(Addr)
    \/ \E p \in Addr : Honest("zenoh_declare_querier", p) /\ HasRoom(Addr) /\ zenoh_declare_querier("F", p, "ok", "none") /\ UNCHANGED evars
    \/ DeclareReturn("F") /\ UNCHANGED evars /\ Within(Addr)
    \/ \E p \in Addr :
          /\ MoreQueries /\ Honest("zenoh_get", p) /\ cb["G"] = NoCb
          /\ zenoh_get("G", p, "ok", "none") /\ Begin("G", "zenoh_get")
    \/ \E peers \in Peers : get_send("G", peers)
    \/ get_reply_enter("G")
    \/ get_reply_return("G")
    \/ run_blocking_local("G", "ok", FALSE, FALSE) /\ Completed("G", 0)
    \/ \E p \in Addr :
          /\ MoreQueries /\ Honest("zenoh_querier_get", p)
          /\ zenoh_querier_get("F", p, "none") /\ Begin("F", "zenoh_querier_get")
    \/ \E peers \in Peers, eng \in EngineOut :
          run_blocking_local("F", eng, FALSE, FALSE) /\ Completed("F", IF res'["F"] = "ok" THEN peers ELSE 0)
    \/ \E g \in DOMAIN gets : peer_reply(g)
    \/ \E w \in Workers, g \in Chain("F") : querier_reply_enter(w, g)
    \/ \E w \in Workers : callback_return(w)
    \/ \E t \in {"F", "G"} : CodeReturn(t) /\ UNCHANGED evars

SpecGet == Init /\ [][NextGet]_vars

\* C14: the foreign callback of a get-style call is invoked only while the call is in
\* progress: every reply callback of the call has started and finished when the call
\* returns, and none comes after.
C14_RepliesBeforeReturn ==
    [][\A t \in Threads : \A g \in Chain(t) :
          Len(gets'[g].got) > Len(gets[g].got)
              => pc[t] = "pending" /\ cur[t].op \in GetOps /\ g = StreamOf(t)]_vars

\* ------------------------------------------------------- SpecAttachment: put with attachment

\* No registration has been owed an event yet.
NothingDue == \A a \in Regs : due[a] = <<>>

\* A foreign thread opens one session, declares and undeclares one subscriber at a
\* time and puts with every attachment list of at most MaxItems entries; an engine thread delivers.
NextAttachment ==
    \/ (\A a \in Addr : ~heap[a].live) /\ HasRoom(Addr) /\ zenoh_open("F", "ok", "none") /\ UNCHANGED evars
    \/ OpenReturn("F") /\ UNCHANGED evars /\ LowestFirst(Addr)
    \/ \E p \in Addr :
          /\ \A a \in Addr : heap[a].live => a = p
          /\ Honest("zenoh_declare_subscriber", p) /\ HasRoom(Addr) /\ zenoh_declare_subscriber("F", p, "ok", "none") /\ UNCHANGED evars
    \/ DeclareReturn("F") /\ Register("F") /\ LowestFirst(Addr)
    \/ \E p \in Addr, key \in {"ok", "bad_utf8"}, pay \in {"data", "null_nonzero"}, items \in AttIn :
          NothingDue /\ Honest("zenoh_put_with_attachment", p)
             /\ zenoh_put_with_attachment("F", p, key, pay, "none")
             /\ RecordAttachment("F", key, pay, items)
    \/ \E eng \in EngineOut : run_blocking("F", eng, FALSE, FALSE) /\ Route("F")
    \/ \E eng \in EngineOut : run_blocking_local("F", eng, FALSE, FALSE) /\ UNCHANGED evars
    \/ CodeReturn("F") /\ Forget("F")
    \/ \E a \in Regs : subscriber_callback("W", a)
    \/ callback_return("W")
    \/ \E p \in Addr : Honest("zenoh_undeclare_subscriber", p) /\ zenoh_undeclare_subscriber("F", p, "nop", FALSE) /\ Unregister(p)

SpecAttachment == Init /\ [][NextAttachment]_vars

\* The entries of a list that have a key that is a UTF-8 string, in list order.
WellFormed(items) == SelectSeq(items, LAMBDA item : item.k = "ok")

\* n as four bytes, least significant first.
LittleEndian32(n) == <<n % 256, (n \div 256) % 256, (n \div 65536) % 256, (n \div 16777216) % 256>>

\* One entry on the wire: key length, key bytes, value length, value bytes.
Encoded(item) ==
    LET v == IF item.vp = "null" THEN <<>> ELSE item.value
    IN  LittleEndian32(Len(item.key)) \o item.key \o LittleEndian32(Len(v)) \o v

\* The first n entries of a list on the wire.
RECURSIVE Wire(_, _)
Wire(items, n) == IF n = 0 THEN <<>> ELSE Wire(items, n - 1) \o Encoded(items[n])

\* The attachment a put with the given list carries.
Carried(items) ==
    IF WellFormed(items) = <<>> THEN None
    ELSE Some(Wire(WellFormed(items), Len(WellFormed(items))))

\* C22: a put with attachment is not rejected because of an entry with a null key or
\* a key that is not UTF-8; the sample it hands to the engine carries exactly the
\* well-formed entries, in list order, each as 4-byte little-endian key length, key
\* bytes, 4-byte little-endian value length, value bytes; with no well-formed entry
\* (or an empty or null list) the sample carries no attachment.
C22_MalformedEntriesSkipped ==
    /\ \A a \in Addr :
          heap[a].live /\ heap[a].kind = "SubscriberWrapper"
             => /\ Len(log[a]) + Len(inbox[a]) = Len(due[a])
                /\ \A i \in 1..Len(inbox[a]) :
                      due[a][Len(log[a]) + i].op = "zenoh_put_with_attachment"
                         => inbox[a][i].attachment = Carried(due[a][Len(log[a]) + i].items)
    /\ \A t \in Threads :
          pc[t] = "idle" /\ ret[t].op = "zenoh_put_with_attachment" /\ args[t] # NoArgs
             => /\ Failed(ret[t])
                /\ args[t].key # "ok" \/ args[t].pay = "null_nonzero"

\* A put whose list holds an entry with a non-UTF-8 key followed by the entry
\* ("bc", <<7>>) has been routed to a subscriber with the attachment
\* 02 00 00 00 'b' 'c' 01 00 00 00 07.
C22_Witness ==
    \E a \in Addr :
        /\ heap[a].live /\ heap[a].kind = "SubscriberWrapper"
        /\ Len(inbox[a]) = 1 /\ Len(due[a]) = 1
        /\ Len(due[a][1].items) = 2 /\ due[a][1].items[1].k = "bad_utf8"
        /\ inbox[a][1].attachment = Some(<<2, 0, 0, 0, 98, 99, 1, 0, 0, 0, 7>>)

\* ------------------------------------------------------- SpecStrings: inbound strings

\* The entry points that decode a string argument.
StringOps == {"zenoh_open"} \cup DeclareOps \cup SessionCodeOps \cup QueryOps

\* Strings as the caller passes them: UTF-8 text, or bytes that are not UTF-8.
TextIn == {"ok", "bad_utf8"}

\* Attachment lists with and without an entry whose key is not UTF-8.
ListIn == {<<>>, <<[k |-> "bad_utf8", key |-> <<255>>, vp |-> "ok", value |-> <<7>>]>>}

\* The arguments of a call that takes a string: the handle, the string, the buffer and
\* the attachment list.
RecordString(t, p, key, pay, items) ==
    /\ args' = [args EXCEPT ![t] = [key |-> key, pay |-> pay, items |-> items, handle |-> p]]
    /\ UNCHANGED <<inbox, cb, log, due, gets, qfrom, qstat, rt, frames>>

\* The event side of a zenoh_query_reply call that a null check turns away: the
\* arguments are kept, the query is left to the caller.
Refused(t, q, key, pay) ==
    /\ args' = [args EXCEPT ![t] = [key |-> key, pay |-> pay, query |-> q,
                                    call |-> IF "call" \in DOMAIN args[t] THEN args[t].call ELSE 0]]
    /\ UNCHANGED <<inbox, cb, log, due, gets, qfrom, qstat, rt, frames>>

\* A foreign thread F calls every entry point that takes a string with UTF-8 text and
\* with bytes that are not UTF-8: zenoh_open, the seven declare operations, the five
\* session operations; the engine's thread W enters the queryable callback, which
\* calls zenoh_query_reply.  With the bytes that are not UTF-8 the callers also pass a
\* null pointer in place of the handle, and a null buffer.  F makes the session calls
\* while no subscriber and no queryable is declared, and passes a null pointer to a
\* declare operation while nothing is declared.
NextStrings ==
    \/ \E cfg \in TextIn :
          /\ (\A a \in Addr : ~heap[a].live) /\ HasRoom(Addr)
          /\ zenoh_open("F", cfg, "none") /\ RecordString("F", NULL, cfg, "null_zero", <<>>)
    \/ OpenReturn("F") /\ UNCHANGED evars /\ LowestFirst(Addr)
    \/ \E op \in DeclareOps, p \in Ptr, key \in TextIn :
          /\ p = NULL => key = "bad_utf8" /\ \A a \in Addr : heap[a].live => heap[a].kind = "SessionWrapper"
          /\ Honest(op, p) /\ HasRoom(Addr)
          /\ DeclareCall("F", op, p, key, "none") /\ RecordString("F", p, key, "null_zero", <<>>)
    \/ DeclareReturn("F") /\ Register("F") /\ LowestFirst(Addr)
    \/ \E op \in SessionCodeOps, p \in Ptr, key \in TextIn, pay \in PayIn, items \in ListIn :
          /\ Honest(op, p)
          /\ \A a \in Addr : ~(heap[a].live /\ heap[a].kind \in {"SubscriberWrapper", "QueryableWrapper"})
          /\ op # "zenoh_put_with_attachment" \/ p = NULL => items = <<>>
          /\ op \notin PutOps => pay = "null_zero"
          /\ p = NULL \/ pay = "null_nonzero" => key = "bad_utf8"
          /\ p = NULL => pay \in {"data", "null_zero"} \ {IF op \in PutOps THEN "null_zero" ELSE "data"}
          /\ SessionCall("F", op, p, key, pay, "none") /\ RecordString("F", p, key, pay, items)
    \/ \E eng \in EngineOut : run_blocking("F", eng, FALSE, FALSE) /\ UNCHANGED evars
    \/ \E eng \in EngineOut : run_blocking_local("F", eng, FALSE, FALSE) /\ UNCHANGED evars
    \/ CodeReturn("F") /\ UNCHANGED evars
    \/ \E a \in Addr :
          /\ pc["F"] = "idle" /\ inbox[a] = <<>> /\ \A q \in QAddr : ~heap[q].live
          /\ peer_query(a)
    \/ \E a \in Regs : queryable_callback("W", a) /\ Within(QAddr)
    \/ callback_return("W")
    \/ \E q \in {NULL} \cup QAddr, key \in TextIn, pay \in {"data", "null_zero"} :
          /\ InCallback("W") /\ Honest("zenoh_query_reply", q) /\ (q = NULL \/ Unused(q))
          /\ q = NULL \/ pay = "null_zero" => key = "bad_utf8"
          /\ zenoh_query_reply("W", q, key, pay, "none")
          /\ IF q = NULL \/ pay = "null_zero" THEN Refused("W", q, key, pay) ELSE Replying("W", q, key, pay)
    \/ \E eng \in EngineOut : run_blocking("W", eng, FALSE, FALSE) /\ Replied("W")
    \/ CodeReturn("W") /\ UNCHANGED evars

SpecStrings == Init /\ [][NextStrings]_vars

\* The call thread t made last was given a configuration text, topic, selector or
\* reply topic that is not UTF-8.
BadText(t) == ret[t].op \in StringOps /\ args[t].key = "bad_utf8"

\* The call thread t made last was given an attachment entry whose key is not UTF-8.
BadAttachmentKey(t) ==
    /\ "items" \in DOMAIN args[t]
    /\ \E i \in 1..Len(args[t].items) : args[t].items[i].k = "bad_utf8"

\* The call thread t made last returned a null handle or InvalidKeyExpr.
Rejected(t) ==
    ret[t] = RetPtr(ret[t].op, NULL) \/ ret[t] = RetCode(ret[t].op, InvalidKeyExpr)

\* C21 as stated: an operation given text that is not UTF-8 in any inbound string,
\* attachment keys included, hands nothing to the engine and returns a null handle
\* or InvalidKeyExpr.
C21_AnyBadTextRejected ==
    \A t \in Threads :
        /\ pc[t] # "idle" /\ cur[t].op \in StringOps
              => args[t].key # "bad_utf8" /\ ~BadAttachmentKey(t)
        /\ pc[t] = "idle" /\ (BadText(t) \/ (ret[t].op = "zenoh_put_with_attachment" /\ BadAttachmentKey(t)))
              => Rejected(t)

\* The call thread t made last fails a null check that the entry point makes before
\* it decodes the string: of the handle (session, query), of a put buffer that is
\* null with a nonzero length, of the reply buffer.
NullFirst(t) ==
    \/ "handle" \in DOMAIN args[t] /\ args[t].handle = NULL /\ ret[t].op # "zenoh_open"
    \/ ChecksPayload(ret[t].op) /\ args[t].pay = "null_nonzero"
    \/ /\ ret[t].op \in QueryOps
       /\ args[t].query = NULL \/ args[t].pay \in {"null_nonzero", "null_zero"}

\* The call thread t made last returned a null handle or NullPointer.
RejectedAsNull(t) ==
    ret[t] = RetPtr(ret[t].op, NULL) \/ ret[t] = RetCode(ret[t].op, NullPointer)

\* C21: an operation given a configuration text, topic, selector or reply topic that
\* is not UTF-8 never enters the bridge, so that it starts no engine operation, and
\* never returns Ok or a handle: it returns a null handle or InvalidKeyExpr when the
\* null checks that come before the decoding pass, and a null handle or NullPointer
\* when one of them fails; an attachment entry whose key is not UTF-8 is no reason to
\* reject the put.
C21_BadTextRejected ==
    \A t \in Threads :
        /\ pc[t] # "idle" /\ cur[t].op \in StringOps => args[t].key # "bad_utf8"
        /\ pc[t] = "idle" /\ BadText(t)
              => IF NullFirst(t) THEN RejectedAsNull(t) ELSE Rejected(t)
        /\ pc[t] = "idle" /\ ret[t].op = "zenoh_put_with_attachment" /\ BadAttachmentKey(t)
              /\ args[t].key = "ok" /\ ~NullFirst(t)
              => ~Rejected(t) /\ ~RejectedAsNull(t)

\* zenoh_query_reply, called from the callback of a queryable with a reply topic that
\* is not UTF-8 and a null reply buffer, has returned NullPointer and the query is
\* still live; a call with a UTF-8 topic declared the queryable.
C21_Witness ==
    /\ pc["W"] = "idle" /\ BadText("W") /\ NullFirst("W")
    /\ args["W"].query # NULL /\ heap[args["W"].query].live
    /\ ret["W"] = RetCode("zenoh_query_reply", NullPointer)
    /\ pc["F"] = "idle" /\ ret["F"].op = "zenoh_declare_queryable" /\ args["F"].key = "ok"

\* ------------------------------------------------------- SpecEncoding: encoding identifiers

\* A foreign thread opens a session, declares and undeclares a subscriber and puts
\* with every encoding identifier; remote publishers put with every wire encoding;
\* an engine thread delivers.
NextEncoding ==
    \/ HasRoom(Addr) /\ zenoh_open("F", "ok", "none") /\ UNCHANGED evars
    \/ OpenReturn("F") /\ UNCHANGED evars /\ LowestFirst(Addr)
    \/ \E p \in Addr : Honest("zenoh_declare_subscriber", p) /\ HasRoom(Addr) /\ zenoh_declare_subscriber("F", p, "ok", "none") /\ UNCHANGED evars
    \/ DeclareReturn("F") /\ Register("F") /\ LowestFirst(Addr)
    \/ \E p \in Addr, encoding_id \in ZenohEncodingId :
          NothingDue /\ Honest("zenoh_put_with_encoding", p)
             /\ zenoh_put_with_encoding("F", p, "ok", "data", "none")
             /\ RecordEncoding("F", "ok", "data", encoding_id)
    \/ \E p \in Addr :
          NothingDue /\ Honest("zenoh_put", p)
             /\ zenoh_put("F", p, "ok", "data", "none") /\ Record("F", "ok", "data")
    \/ \E a \in Addr, encoding \in WireEncodings : NothingDue /\ pc["F"] = "idle" /\ peer_put(a, encoding)
    \/ \E eng \in EngineOut : run_blocking("F", eng, FALSE, FALSE) /\ Route("F")
    \/ \E eng \in EngineOut : run_blocking_local("F", eng, FALSE, FALSE) /\ UNCHANGED evars
    \/ CodeReturn("F") /\ Forget("F")
    \/ \E a \in Regs : subscriber_callback("W", a)
    \/ callback_return("W")
    \/ \E p \in Addr : Honest("zenoh_undeclare_subscriber", p) /\ zenoh_undeclare_subscriber("F", p, "nop", FALSE) /\ Unregister(p)

SpecEncoding == Init /\ [][NextEncoding]_vars

\* The wire encodings the boundary has an identifier for.
Recognised ==
    {"", "application/octet-stream", "text/plain", "application/json", "text/json",
     "application/cbor", "application/yaml", "text/yaml", "text/xml", "application/xml",
     "text/csv", "application/protobuf", "text/html"}

\* C23: a sample that arrives with a wire encoding outside the recognised set is
\* delivered to the subscriber callback like any other, and the view's encoding
\* identifier is AppOctetStream (1) for every such encoding.
C23_UnrecognisedIsOctetStream ==
    \A a \in Addr :
        heap[a].live /\ heap[a].kind = "SubscriberWrapper"
            => /\ Len(log[a]) + Len(inbox[a]) = Len(due[a])
               /\ \A i \in 1..Len(log[a]) :
                     due[a][i].op = "peer" /\ due[a][i].wire \notin Recognised
                        => log[a][i].encoding_id = 1

\* The callback has been invoked for a sample put with the wire encoding
\* "image/png", with the encoding identifier 1.
C23_Witness ==
    \E a \in Addr :
        /\ heap[a].live /\ heap[a].kind = "SubscriberWrapper"
        /\ Len(log[a]) = 1 /\ due[a][1].op = "peer" /\ due[a][1].wire = "image/png"
        /\ log[a][1].encoding_id = AppOctetStream /\ log[a][1].bytes = <<1>>

\* C24: a payload put with encoding identifier X is received by a subscriber with
\* encoding identifier X, for each of the thirteen identifiers.
C24_EncodingRoundTrip ==
    \A a \in Addr :
        heap[a].live /\ heap[a].kind = "SubscriberWrapper"
            => \A i \in 1..Len(log[a]) :
                  due[a][i].op = "zenoh_put_with_encoding"
                     => log[a][i].encoding_id = due[a][i].encoding_id

\* ------------------------------------------------------- SpecLifecycle: open, publish, close

\* The configuration zenoh_open hands to the engine: Config::default() for a null
\* pointer or an empty text, Config::from_json5(text) otherwise.
config(cfg) ==
    CASE cfg \in {"null", "empty"} -> "default"
      [] cfg = "ok" -> "from_json5"
      [] OTHER -> "none"

\* The arguments of zenoh_open and the configuration it builds from them.
RecordConfig(t, cfg) ==
    /\ args' = [args EXCEPT ![t] = [key |-> cfg, pay |-> "null_zero", config |-> config(cfg)]]
    /\ UNCHANGED <<inbox, cb, log, due, gets, qfrom, qstat, rt, frames>>

\* A foreign thread opens sessions with every kind of configuration text, declares a
\* publisher, puts buffers of length zero (null or not) and of nonzero length,
\* undeclares the publisher and closes the session.
NextLifecycle ==
    \/ \E cfg \in CfgIn : HasRoom(Addr) /\ zenoh_open("F", cfg, "none") /\ RecordConfig("F", cfg)
    \/ OpenReturn("F") /\ UNCHANGED evars /\ Within(Addr)
    \/ \E p \in Addr : Honest("zenoh_declare_publisher", p) /\ HasRoom(Addr) /\ zenoh_declare_publisher("F", p, "ok", "none") /\ UNCHANGED evars
    \/ DeclareReturn("F") /\ Register("F") /\ Within(Addr)
    \/ \E p \in Addr, pay \in {"null_zero", "data"} :
          Honest("zenoh_publisher_put", p) /\ zenoh_publisher_put("F", p, pay, "none") /\ Record("F", "ok", pay)
    \/ \E eng \in EngineOut : run_blocking("F", eng, FALSE, FALSE) /\ UNCHANGED evars
    \/ CodeReturn("F") /\ UNCHANGED evars
    \/ \E p \in Addr : Honest("zenoh_undeclare_publisher", p) /\ zenoh_undeclare_publisher("F", p, "nop", FALSE) /\ Unregister(p)
    \/ \E p \in Addr : Honest("zenoh_close", p) /\ zenoh_close("F", p, "nop", FALSE) /\ UNCHANGED evars

SpecLifecycle == Init /\ [][NextLifecycle]_vars

\* The last call of F was a zenoh_open with a null, empty or well-formed
\* configuration text, a zenoh_declare_publisher with a valid topic, or a
\* zenoh_publisher_put of a buffer of length N >= 0.
ValidCall ==
    \/ ret["F"].op = "zenoh_open" /\ args["F"].key \in {"null", "empty", "ok"}
    \/ ret["F"].op = "zenoh_declare_publisher"
    \/ ret["F"].op = "zenoh_publisher_put"

\* C25: with a valid topic and a buffer of any length N >= 0 (a null buffer with
\* length 0 included), open, declare-publisher and publisher-put fail only when the
\* engine refuses the operation (otherwise: non-null session, non-null publisher,
\* Ok), and once the publisher is undeclared and the session closed no wrapper and
\* no reference to the session is left.
C25_PublisherLifecycle ==
    /\ pc["F"] = "idle" /\ ValidCall /\ Failed(ret["F"])
          => err["F"] = <<FailMsg(ret["F"].op)>>
    /\ pc["F"] = "idle" /\ ValidCall /\ ~Failed(ret["F"]) /\ ret["F"].k = "ptr"
          => heap[ret["F"].v].live
    /\ pc["F"] = "idle" /\ (\A a \in Addr : ~heap[a].live)
          => \A s \in Sess : arc[s] = 0

\* A session was opened, a publisher declared, a null buffer of length 0 put with
\* result Ok, the publisher undeclared and the session closed: nothing is left.
C25_Witness ==
    /\ pc["F"] = "idle" /\ ret["F"].op = "zenoh_close" /\ ret["F"].v # NULL
    /\ args["F"] = [key |-> "ok", pay |-> "null_zero"] /\ err["F"] = <<>>
    /\ \A a \in Addr : ~heap[a].live
    /\ \A s \in Sess : arc[s] = 0

\* The step is a zenoh_open call of F that returns without entering the bridge.
OpenRejects == pc["F"] = "idle" /\ pc'["F"] = "idle" /\ ret'["F"].op = "zenoh_open"

\* The step is a zenoh_close call of F on the live session handle p.
Closes(p) == heap[p].live /\ heap[p].kind = "SessionWrapper" /\ ret'["F"] = RetVoid("zenoh_close", p)

\* C26: zenoh_open with a null or an empty configuration text hands the default
\* configuration to the engine and never reports a configuration error; with a
\* non-empty text that does not parse it returns null with the message "Config
\* parse error" and creates no session; every non-null result is the handle of a
\* live session, and zenoh_close on it frees the handle and releases its reference.
C26_OpenConfig ==
    /\ [](/\ pc["F"] # "idle" /\ cur["F"].op = "zenoh_open"
                => /\ args["F"].key \in {"null", "empty", "ok"}
                   /\ args["F"].key \in {"null", "empty"} => args["F"].config = "default"
          /\ pc["F"] = "idle" /\ ret["F"].op = "zenoh_open" /\ args["F"].key \in {"null", "empty"}
                => /\ err["F"] \notin {<<"Config parse error">>, <<"Invalid UTF-8 in config">>}
                   /\ Failed(ret["F"]) => err["F"] = <<"Failed to open session">>
          /\ pc["F"] = "idle" /\ ret["F"].op = "zenoh_open" /\ args["F"].key = "malformed"
                => ret["F"] = RetPtr("zenoh_open", NULL) /\ err["F"] = <<"Config parse error">>
          /\ pc["F"] = "idle" /\ ret["F"].op = "zenoh_open" /\ ret["F"].v # NULL
                => /\ heap[ret["F"].v].live /\ heap[ret["F"].v].kind = "SessionWrapper"
                   /\ arc[heap[ret["F"].v].sess] >= 1)
    /\ [][OpenRejects => heap' = heap /\ arc' = arc]_vars
    /\ [][\A p \in Addr :
             Closes(p) => ~heap'[p].live /\ arc'[heap[p].sess] = arc[heap[p].sess] - 1]_vars

\* zenoh_open with an empty configuration text has returned a session handle, after
\* the default configuration was handed to the engine.
C26_Witness ==
    /\ pc["F"] = "idle" /\ ret["F"].op = "zenoh_open" /\ ret["F"].v # NULL
    /\ args["F"].key = "empty" /\ args["F"].config = "default"
    /\ heap[ret["F"].v].live

\* ------------------------------------------------------- C28 (under SpecQuery)

\* The step is a call of t that returns without entering the bridge: one of its
\* arguments failed validation.
FailsValidation(t) == pc[t] = "idle" /\ pc'[t] = "idle" /\ args'[t] # args[t]

\* C28: a call that fails input validation (a null required pointer, text that is
\* not UTF-8) changes no resource state: no handle is created or freed, no reference
\* count changes, no query is finalized.
C28_ValidationChangesNothing ==
    [][\A t \in Threads :
          FailsValidation(t) => heap' = heap /\ arc' = arc /\ gets' = gets /\ qstat' = qstat]_vars

\* ------------------------------------------------------- SpecRuntime: the execution context

\* The path the bridge takes for the call in progress on t: RUNTIME.block_on on the
\* calling thread; RUNTIME.handle() on the calling thread and block_on on a thread
\* from std::thread::spawn; RUNTIME.block_on on a thread from std::thread::scope.
Path(t) ==
    IF ~InCtx(t) THEN "direct"
    ELSE IF Shape(cur[t].op) = "detached" THEN "detached" ELSE "scoped"

\* The bridge call of t has not reached RUNTIME yet.
Needs(t) == pc[t] = "pending" /\ rt.on[t] = 0

\* Variant of the execution context without the Lazy: every bridge call builds a
\* Runtime of its own.
force_RuntimePerCall(t) ==
    /\ proc = "running"
    /\ Needs(t)
    /\ rt' = [rt EXCEPT !.state = "ready", !.made = @ + 1, !.cell = rt.made + 1,
                        !.on[t] = rt.made + 1,
                        !.used = @ \cup {<<Path(t), rt.made + 1>>}]
    /\ UNCHANGED <<inbox, cb, log, args, due, gets, qfrom, qstat, frames>>
    /\ UNCHANGED <<heap, stale, arc, pc, cur, res, err, ret, seen, helper, proc, ub>>

\* The bridge call of t dereferences RUNTIME and the Lazy cannot give an instance:
\* the expect of the initialiser, or of a Lazy poisoned before, panics.  On the
\* direct path and at RUNTIME.handle() of the detached path the panic is raised on
\* the calling thread; on the scoped path it kills the scoped thread and the
\* caller's rx.recv().expect panics.  No future is driven.
Poisoned(t) ==
    /\ pc' = [pc EXCEPT ![t] = "ran"]
    /\ res' = [res EXCEPT ![t] = "panic"]
    /\ helper' = IF Path(t) = "scoped"
                 THEN [helper EXCEPT ![t] = [st |-> "died", slot |-> helper[t].slot]]
                 ELSE [helper EXCEPT ![t] = NoHelper]
    /\ UNCHANGED <<heap, stale, arc, cur, err, ret, seen, proc, ub>>

\* The bridge call of t dereferences RUNTIME (Lazy::force): the first thread to
\* arrive runs the initialiser Runtime::new().expect(..) while the others wait;
\* afterwards every thread gets the instance the Lazy holds.  When Runtime::new()
\* fails the expect panics inside the initialiser, the Lazy holds no instance and
\* has lost its initialiser ("poisoned"), and every later dereference panics.
force(t) ==
    /\ proc = "running"
    /\ \/ /\ Needs(t) /\ rt.state = "uninit"
          /\ rt' = [rt EXCEPT !.state = "running", !.by = t]
          /\ UNCHANGED <<heap, stale, arc, pc, cur, res, err, ret, seen, helper, proc, ub>>
       \/ /\ rt.state = "running" /\ rt.by = t
          /\ rt' = [rt EXCEPT !.state = "ready", !.by = "none", !.made = @ + 1, !.cell = rt.made + 1,
                              !.on[t] = rt.made + 1,
                              !.used = @ \cup {<<Path(t), rt.made + 1>>},
                              !.raced = \E u \in Threads \ {t} : Needs(u)]
          /\ UNCHANGED <<heap, stale, arc, pc, cur, res, err, ret, seen, helper, proc, ub>>
       \/ /\ rt.state = "running" /\ rt.by = t
          /\ rt' = [rt EXCEPT !.state = "poisoned", !.by = "none", !.made = @ + 1,
                              !.raced = \E u \in Threads \ {t} : Needs(u)]
          /\ Poisoned(t)
       \/ /\ Needs(t) /\ rt.state = "ready"
          /\ rt' = [rt EXCEPT !.on[t] = rt.cell, !.used = @ \cup {<<Path(t), rt.cell>>}]
          /\ UNCHANGED <<heap, stale, arc, pc, cur, res, err, ret, seen, helper, proc, ub>>
       \/ /\ Needs(t) /\ rt.state = "poisoned"
          /\ rt' = rt
          /\ Poisoned(t)
    /\ UNCHANGED <<inbox, cb, log, args, due, gets, qfrom, qstat, frames>>

\* block_on has returned on the thread that drove the future of t's call.
release(t) ==
    /\ proc = "running"
    /\ pc[t] = "ran" /\ rt.on[t] # 0
    /\ rt' = [rt EXCEPT !.on[t] = 0]
    /\ UNCHANGED <<inbox, cb, log, args, due, gets, qfrom, qstat, frames>>
    /\ UNCHANGED <<heap, stale, arc, pc, cur, res, err, ret, seen, helper, proc, ub>>

\* Two foreign threads F and G make their first calls (zenoh_open) at the same time;
\* one session stays, F declares a subscriber and puts; the foreign callback,
\* entered on the engine's thread W, calls zenoh_put (run_blocking) and zenoh_get
\* (run_blocking_local).  G also makes calls that never reach the bridge.
NextRuntime ==
    \/ \E t \in {"F", "G"}, cfg \in {"ok", "malformed"} :
          (\A a \in Addr : ~heap[a].live) /\ HasRoom(Addr) /\ zenoh_open(t, cfg, "none") /\ UNCHANGED evars
    \/ \E t \in {"F", "G"} : rt.on[t] = 0 /\ OpenReturn(t) /\ UNCHANGED evars /\ LowestFirst(Addr)
    \/ \E p \in Addr : Honest("zenoh_close", p) /\ (\E a \in Addr \ {p} : heap[a].live)
                          /\ zenoh_close("G", p, "nop", FALSE) /\ UNCHANGED evars
    \/ \E p \in Addr :
          /\ \A a \in Addr : heap[a].live => a = p
          /\ Honest("zenoh_declare_subscriber", p) /\ HasRoom(Addr) /\ zenoh_declare_subscriber("F", p, "ok", "none") /\ UNCHANGED evars
    \/ rt.on["F"] = 0 /\ DeclareReturn("F") /\ Register("F") /\ LowestFirst(Addr)
    \/ \E p \in Addr :
          MorePuts /\ Honest("zenoh_put", p) /\ zenoh_put("F", p, "ok", "data", "none") /\ Record("F", "ok", "data")
    \/ \E p \in Addr :
          /\ InCallback("W") /\ MorePuts /\ Honest("zenoh_put", p)
          /\ zenoh_put("W", p, "ok", "null_zero", "none") /\ Record("W", "ok", "null_zero")
    \/ \E p \in Addr :
          /\ InCallback("W") /\ Honest("zenoh_get", p)
          /\ zenoh_get("W", p, "ok", "none") /\ UNCHANGED evars
    \/ \E t \in Threads : force(t)
    \/ \E t \in Threads : rt.on[t] # 0 /\ run_blocking(t, "ok", FALSE, FALSE) /\ Route(t)
    \/ \E t \in Threads : rt.on[t] # 0 /\ run_blocking_local(t, "ok", FALSE, FALSE) /\ UNCHANGED evars
    \/ \E t \in Threads : release(t)
    \/ \E t \in Threads : rt.on[t] = 0 /\ CodeReturn(t) /\ Forget(t)
    \/ \E a \in Regs : subscriber_callback("W", a)
    \/ callback_return("W")

SpecRuntime == Init /\ [][NextRuntime]_vars

\* C30: there is exactly one execution context: however the first calls of several
\* threads interleave, Runtime::new() runs at most once, not before a call has
\* reached the bridge, and every bridge call, on the direct, the detached and the
\* scoped path, drives its future on that one instance.
C30_OneRuntime ==
    /\ [](/\ rt.made <= 1
          /\ \A u \in rt.used : u[2] = 1
          /\ \A t \in Threads :
                (pc[t] = "ran" /\ res[t] # "panic") \/ rt.on[t] # 0 => rt.made = 1 /\ rt.cell = 1
          /\ rt.state = "poisoned" => rt.cell = 0 /\ rt.used = {})
    /\ [][rt.state = "uninit" /\ rt'.state # "uninit" => \E t \in Threads : pc[t] = "pending"]_vars
    /\ [][rt.cell # 0 => rt'.cell = rt.cell]_vars

\* Bridge calls have run on the direct, the detached and the scoped path, all on
\* the one instance, after two first calls raced for the initialiser.
C30_Witness ==
    /\ rt.used = {<<"direct", 1>>, <<"detached", 1>>, <<"scoped", 1>>}
    /\ rt.made = 1 /\ rt.raced

\* ------------------------------------------------------- SpecLiveliness: tokens and their subscribers

\* The addresses the token's box can take in this specification: those of the
\* declared handles and the ones beyond them.
TokenAddr == Cells

\* A liveliness token is declared, or its declaration is in flight.
TokenAround ==
    \/ \E a \in TokenAddr : heap[a].live /\ heap[a].kind = "LivelinessTokenWrapper"
    \/ \E t \in Threads : pc[t] # "idle" /\ cur[t].op = "zenoh_liveliness_declare_token"

\* The engine has run session.liveliness().declare_token(key): on success it
\* announces the token to the liveliness subscribers of the connection with a
\* sample of kind put.
Announce(t) ==
    LET hit(a) == /\ cur[t].op = "zenoh_liveliness_declare_token" /\ res'[t] = "ok"
                  /\ Subscribed(a, cur'[t].on)
        sample == [key |-> args[t].key, kind |-> "put"]
    IN  /\ inbox' = [a \in DOMAIN inbox |-> IF hit(a) THEN Append(inbox[a], sample) ELSE inbox[a]]
        /\ due' = [a \in DOMAIN inbox |-> IF hit(a) THEN Append(due[a], sample) ELSE due[a]]
        /\ UNCHANGED <<cb, log, args, gets, qfrom, qstat, rt, frames>>

\* Dropping the LivelinessTokenWrapper at p drops the token: the engine tells the
\* liveliness subscribers of the connection with a sample of kind delete.
Retract(p) ==
    LET hit(a) == Subscribed(a, heap[p].sess)
        sample == [key |-> "ok", kind |-> "delete"]
    IN  /\ inbox' = [a \in DOMAIN inbox |-> IF hit(a) THEN Append(inbox[a], sample) ELSE inbox[a]]
        /\ due' = [a \in DOMAIN inbox |-> IF hit(a) THEN Append(due[a], sample) ELSE due[a]]
        /\ UNCHANGED <<cb, log, args, gets, qfrom, qstat, rt, frames>>

\* Variant of the liveliness closure that reports every event as alive.
is_alive_Always(sample) == TRUE

\* let is_alive = matches!(sample.kind(), SampleKind::Put).
is_alive(sample) == sample.kind = "put"

\* The closure given to liveliness().declare_subscriber(..).callback(..): the engine
\* calls it with the next sample of registration a on thread w; it passes the key
\* and is_alive to the foreign callback.
liveliness_callback(w, a) ==
    /\ proc = "running"
    /\ cb[w] = NoCb /\ pc[w] = "idle"
    /\ Registered(a, "SubscriberWrapper")
    /\ inbox[a] # <<>>
    /\ LET view == [key |-> Head(inbox[a]).key, is_alive |-> is_alive(Head(inbox[a]))]
       IN  IF Terminable(Head(inbox[a]).key)
           THEN /\ cb' = [cb EXCEPT ![w] = [reg |-> a, view |-> view]]
                /\ frames' = [frames EXCEPT ![w].key_cstr = CString_new(Head(inbox[a]).key)]
                /\ log' = [log EXCEPT ![a] = Append(log[a], view)]
           ELSE UNCHANGED <<cb, log, frames>>
    /\ inbox' = [inbox EXCEPT ![a] = Tail(inbox[a])]
    /\ UNCHANGED <<args, due, gets, qfrom, qstat, rt>>
    /\ UNCHANGED <<heap, stale, arc, pc, cur, res, err, ret, seen, helper, proc, ub>>

\* A foreign thread opens one session, declares a liveliness subscriber while no
\* token is around, declares and undeclares a token on the subscriber's key, and
\* undeclares the subscriber; an engine thread delivers the liveliness events.
NextLiveliness ==
    \/ (\A a \in Addr : ~heap[a].live) /\ HasRoom(Addr) /\ zenoh_open("F", "ok", "none") /\ UNCHANGED evars
    \/ OpenReturn("F") /\ UNCHANGED evars /\ Within(Addr)
    \/ \E p \in Addr :
          /\ ~TokenAround /\ Honest("zenoh_liveliness_declare_subscriber", p)
          /\ HasRoom(Addr) /\ zenoh_liveliness_declare_subscriber("F", p, "ok", "none") /\ UNCHANGED evars
    \/ cur["F"].op # "zenoh_liveliness_declare_token" /\ DeclareReturn("F") /\ Register("F") /\ Within(Addr)
    \/ \E p \in Addr :
          /\ ~TokenAround /\ MorePuts /\ Honest("zenoh_liveliness_declare_token", p)
          /\ DeclareCallIn(TokenAddr, "F", "zenoh_liveliness_declare_token", p, "ok", "none")
          /\ Record("F", "ok", "null_zero")
    \/ \E eng \in EngineOut : run_blocking("F", eng, FALSE, FALSE) /\ Announce("F")
    \/ \E eng \in EngineOut : run_blocking_local("F", eng, FALSE, FALSE) /\ UNCHANGED evars
    \/ cur["F"].op = "zenoh_liveliness_declare_token" /\ DeclareReturnIn(TokenAddr, "F") /\ Forget("F")
    \/ \E p \in TokenAddr :
          /\ Honest("zenoh_liveliness_undeclare_token", p)
          /\ zenoh_liveliness_undeclare_token("F", p, "nop", FALSE) /\ Retract(p)
    \/ \E a \in Regs : liveliness_callback("W", a)
    \/ callback_return("W")
    \/ \E p \in Addr : Honest("zenoh_undeclare_subscriber", p) /\ zenoh_undeclare_subscriber("F", p, "nop", FALSE) /\ Unregister(p)

SpecLiveliness == Init /\ [][NextLiveliness]_vars

\* C27: a liveliness subscriber registered before a token on a matching key is
\* declared is called with is_alive = true for the declaration and then with
\* is_alive = false for the undeclaration, in that order, and is_alive is true
\* exactly when the kind of the event is put.
C27_AliveThenGone ==
    \A a \in Addr :
        heap[a].live /\ heap[a].kind = "SubscriberWrapper"
            => /\ Len(log[a]) + Len(inbox[a]) = Len(due[a])
               /\ \A i \in 1..Len(log[a]) :
                     /\ log[a][i].key = due[a][i].key
                     /\ log[a][i].is_alive <=> due[a][i].kind = "put"
                     /\ log[a][i].is_alive <=> i % 2 = 1

\* The subscriber has been called with is_alive = true and then with is_alive =
\* false, and the token is undeclared.
C27_Witness ==
    \E a \in Addr :
        /\ heap[a].live /\ heap[a].kind = "SubscriberWrapper"
        /\ log[a] = <<[key |-> "ok", is_alive |-> TRUE], [key |-> "ok", is_alive |-> FALSE]>>
        /\ inbox[a] = <<>> /\ ~TokenAround

\* ------------------------------------------------------- SpecHelper: the helper thread of a call

\* The operations thread W calls from inside the execution context, of both bridge
\* shapes and both return types.
HelperOps == {"zenoh_declare_publisher", "zenoh_declare_subscriber", "zenoh_put", "zenoh_get"}

\* F opens a session and releases what W declared; W, inside the execution context,
\* makes calls of both bridge shapes; the engine may fail each operation and the
\* future may fault on the helper thread.
NextHelper ==
    \/ (\A a \in Addr : ~heap[a].live) /\ HasRoom(Addr) /\ zenoh_open("F", "ok", "none") /\ UNCHANGED evars
    \/ OpenReturn("F") /\ UNCHANGED evars /\ Within(Addr)
    \/ \E p \in Addr, op \in HelperOps \cap DeclareOps :
          Honest(op, p) /\ HasRoom(Addr) /\ DeclareCall("W", op, p, "ok", "none") /\ UNCHANGED evars
    \/ \E p \in Addr, op \in HelperOps \cap SessionCodeOps :
          Honest(op, p) /\ SessionCall("W", op, p, "ok", "data", "none") /\ UNCHANGED evars
    \/ \E eng \in EngineOut, fault \in BOOLEAN : run_blocking("F", eng, fault, FALSE) /\ UNCHANGED evars
    \/ \E eng \in EngineOut, fault \in BOOLEAN : run_blocking("W", eng, fault, FALSE) /\ UNCHANGED evars
    \/ \E eng \in EngineOut, fault \in BOOLEAN : run_blocking_local("W", eng, fault, FALSE) /\ UNCHANGED evars
    \/ DeclareReturn("W") /\ UNCHANGED evars /\ Within(Addr)
    \/ CodeReturn("W") /\ UNCHANGED evars
    \/ \E p \in Addr : Honest("zenoh_undeclare_publisher", p) /\ zenoh_undeclare_publisher("F", p, "nop", FALSE) /\ UNCHANGED evars
    \/ \E p \in Addr : Honest("zenoh_undeclare_subscriber", p) /\ zenoh_undeclare_subscriber("F", p, "nop", FALSE) /\ UNCHANGED evars

\* rx.recv() returns as soon as the helper thread has sent or has ended, and the
\* calling thread then runs to its return.
FairHelper == WF_vars(DeclareReturn("W") /\ UNCHANGED evars /\ Within(Addr)) /\ WF_vars(CodeReturn("W") /\ UNCHANGED evars)

SpecHelper == Init /\ [][NextHelper]_vars /\ FairHelper

\* C31: when the helper thread of a call made inside the execution context ends
\* without delivering a result, the call returns: it does not stay blocked, and what
\* it returns is the internal-fault code (254), or null for a pointer-returning
\* operation, with the "Panic occurred in ..." message in the caller's slot, never
\* the code and message of an operation error.
C31_DeadHelperIsInternalFault ==
    /\ \A t \in Workers : (helper[t].st = "died") ~> (pc[t] = "idle")
    /\ [][\A t \in Workers :
             helper[t].st = "died" /\ pc'[t] = "idle"
                 => /\ ret'[t] = IF ReturnsPtr(cur[t].op) THEN RetPtr(cur[t].op, NULL)
                                 ELSE RetCode(cur[t].op, Panic)
                    /\ err'[t] = <<PanicMsg(cur[t].op)>>
                    /\ FailMsg(cur[t].op) \notin {err'[t][i] : i \in 1..Len(err'[t])}]_vars

\* A call of the scoped bridge has returned the internal-fault code from inside the
\* context after its helper thread died.
C31_Witness ==
    /\ pc["W"] = "idle" /\ helper["W"] = NoHelper
    /\ ret["W"] = RetCode("zenoh_get", Panic)
    /\ err["W"] = <<PanicMsg("zenoh_get")>>

\* ------------------------------------------------------- SpecTwin: the two paths of the bridge

\* The operations called twice, one of each bridge shape and return type.
TwinOps == {"zenoh_put", "zenoh_get", "zenoh_declare_publisher", "zenoh_declare_queryable"}

\* Thread t is in a call of a twin operation.
InTwin(t) == pc[t] # "idle" /\ cur[t].op \in TwinOps

\* The entry point of a twin operation with valid arguments.
TwinCall(t, op, p) ==
    /\ Honest(op, p)
    /\ IF op \in DeclareOps THEN DeclareCallIn(Cells, t, op, p, "ok", "none")
       ELSE SessionCall(t, op, p, "ok", "data", "none")
    /\ Record(t, "ok", "data")

\* The engine answers the call of W as it answered the same call of F.
Same(eng, fault) == fault = (res["F"] = "panic") /\ (~fault => eng = res["F"])

\* F, outside the execution context, and W, inside it, make the same call with the
\* same arguments on the same session, and the engine treats both alike; a
\* subscriber on the session receives what is put.  V delivers the events.
NextTwin ==
    \/ (\A a \in Cells : ~heap[a].live) /\ HasRoom(Addr) /\ zenoh_open("F", "ok", "none") /\ UNCHANGED evars
    \/ OpenReturn("F") /\ UNCHANGED evars /\ LowestFirst(Addr)
    \/ \E p \in Addr :
          /\ pc["W"] = "idle" /\ Honest("zenoh_declare_subscriber", p)
          /\ HasRoom(Addr) /\ zenoh_declare_subscriber("F", p, "ok", "none") /\ UNCHANGED evars
    \/ cur["F"].op = "zenoh_declare_subscriber" /\ DeclareReturn("F") /\ Register("F") /\ LowestFirst(Addr)
    \/ \E op \in TwinOps, p \in Addr :
          /\ pc["W"] = "idle" /\ NothingDue /\ (\A a \in QAddr : ~heap[a].live)
          /\ TwinCall("F", op, p)
    \/ \E op \in TwinOps, p \in Addr :
          /\ pc["F"] = "pending" /\ cur["F"].op = op /\ cur["F"].p = p
          /\ TwinCall("W", op, p)
    \/ \E eng \in EngineOut, fault \in BOOLEAN :
          /\ InTwin("F") => pc["W"] = "pending"
          /\ run_blocking("F", eng, fault, FALSE) /\ Route("F")
    \/ \E eng \in EngineOut, fault \in BOOLEAN :
          /\ InTwin("F") => pc["W"] = "pending"
          /\ run_blocking_local("F", eng, fault, FALSE) /\ UNCHANGED evars
    \/ \E eng \in EngineOut, fault \in BOOLEAN :
          pc["F"] = "ran" /\ Same(eng, fault) /\ run_blocking("W", eng, fault, FALSE) /\ Route("W")
    \/ \E eng \in EngineOut, fault \in BOOLEAN :
          pc["F"] = "ran" /\ Same(eng, fault) /\ run_blocking_local("W", eng, fault, FALSE) /\ UNCHANGED evars
    \/ InTwin("F") /\ pc["W"] = "ran" /\ DeclareReturnIn(Cells, "F") /\ Forget("F")
    \/ pc["W"] = "ran" /\ CodeReturn("F") /\ Forget("F")
    \/ pc["F"] = "idle" /\ DeclareReturnIn(Cells, "W") /\ Forget("W")
    \/ pc["F"] = "idle" /\ CodeReturn("W") /\ Forget("W")
    \/ \E a \in Regs : subscriber_callback("V", a)
    \/ callback_return("V")
    \/ \E p \in Cells :
          /\ pc["W"] = "idle" /\ Honest("zenoh_undeclare_publisher", p)
          /\ zenoh_undeclare_publisher("F", p, "nop", FALSE) /\ UNCHANGED evars
    \/ \E p \in Cells :
          /\ pc["W"] = "idle" /\ Honest("zenoh_undeclare_queryable", p)
          /\ zenoh_undeclare_queryable("F", p, "nop", FALSE) /\ UNCHANGED evars
    \/ \E p \in Addr :
          /\ pc["W"] = "idle" /\ Honest("zenoh_undeclare_subscriber", p)
          /\ zenoh_undeclare_subscriber("F", p, "nop", FALSE) /\ Unregister(p)

SpecTwin == Init /\ [][NextTwin]_vars

\* The wrappers that hold a reference to connection s.
Holders(s) == {a \in Cells : heap[a].live /\ HoldsSession(heap[a].kind) /\ heap[a].sess = s}

\* C32: the same call made outside the execution context (F) and inside it (W), with
\* the same engine answer, has the same outcome: the operation finishes with the
\* same result on the same connection and a put reaches the subscriber once per
\* call with the same sample; both calls return the same status, or both a handle
\* to a wrapper of the same kind on the same connection, or both null; afterwards
\* every reference to the connection is owned by a live wrapper; and a helper
\* thread exists for the call made inside the context and for no other.
C32_BridgePathsEquivalent ==
    /\ [](/\ \A t \in Threads : pc[t] # "idle" => (helper[t] # NoHelper <=> t \in Workers)
          /\ pc["F"] = "ran" /\ pc["W"] = "ran"
                => /\ res["W"] = res["F"] /\ cur["W"].on = cur["F"].on
                   /\ helper["W"].st \in {"sent", "died"}
                   /\ \A a \in Addr :
                         cur["F"].op \in PutOps /\ res["F"] = "ok" /\ Subscribed(a, cur["F"].on)
                             => Len(due[a]) = 2 /\ due[a][1] = due[a][2])
    /\ [][pc["W"] = "ran" /\ pc'["W"] = "idle"
             => /\ ret'["W"].op = ret["F"].op /\ ret'["W"].k = ret["F"].k
                /\ ret["F"].k = "code" => ret'["W"].v = ret["F"].v
                /\ ret["F"].k = "ptr"
                      => /\ ret'["W"].v = NULL <=> ret["F"].v = NULL
                         /\ ret["F"].v # NULL
                               => /\ ret'["W"].v # ret["F"].v
                                  /\ heap'[ret'["W"].v] = heap[ret["F"].v]
                                  /\ heap[ret["F"].v].live
                /\ \A s \in Sess : arc'[s] = Cardinality(Holders(s))']_vars

\* Both calls have returned a publisher handle, and the two handles are live and
\* distinct.
C32_Witness ==
    /\ pc["F"] = "idle" /\ pc["W"] = "idle"
    /\ ret["F"].op = "zenoh_declare_publisher" /\ ret["W"].op = "zenoh_declare_publisher"
    /\ ret["F"].k = "ptr" /\ ret["W"].k = "ptr"
    /\ ret["F"].v # NULL /\ ret["W"].v # NULL /\ ret["F"].v # ret["W"].v
    /\ heap[ret["F"].v].live /\ heap[ret["W"].v].live
    /\ heap[ret["F"].v].kind = "PublisherWrapper" /\ heap[ret["W"].v].kind = "PublisherWrapper"

\* ------------------------------------------------------- SpecView: what the callbacks are given

\* What remote publishers and remote queryables send: a put without a timestamp, a
\* delete with one, a put with another.
PeerSamples ==
    {[key |-> "ok", bytes |-> <<1>>, kind |-> "put", encoding |-> Encoding_default, timestamp |-> NoTimestamp],
     [key |-> "ok", bytes |-> <<>>, kind |-> "delete", encoding |-> "text/plain",
      timestamp |-> Timestamped(<<1, 2>>, 258)],
     [key |-> "ok", bytes |-> <<1>>, kind |-> "put", encoding |-> Encoding_default,
      timestamp |-> Timestamped(<<0, 1>>, 16777217)]}

\* A sample whose topic holds a NUL byte.
NulSample ==
    [key |-> "nul", bytes |-> <<1>>, kind |-> "put", encoding |-> Encoding_default, timestamp |-> NoTimestamp]

\* The replies a get can receive: samples, a sample whose topic holds a NUL byte, and
\* an error reply.
Replies ==
    PeerSamples \cup
    {NulSample,
     [key |-> "none", bytes |-> <<>>, kind |-> "err", encoding |-> Encoding_default, timestamp |-> NoTimestamp]}

\* A remote publisher's sample reaches the subscriber at a.
peer_publish(a, sample) ==
    /\ proc = "running"
    /\ Subscribed(a, RegSess(a))
    /\ inbox' = [inbox EXCEPT ![a] = Append(@, sample)]
    /\ due' = [due EXCEPT ![a] = Append(@, sample)]
    /\ UNCHANGED <<cb, log, args, gets, qfrom, qstat, rt, frames>>
    /\ UNCHANGED <<heap, stale, arc, pc, cur, res, err, ret, seen, helper, proc, ub>>

\* A remote session declares (put) or undeclares (delete) a liveliness token that
\* the liveliness subscriber at a matches.
peer_token(a, key, kind) ==
    /\ proc = "running"
    /\ Subscribed(a, RegSess(a))
    /\ inbox' = [inbox EXCEPT ![a] = Append(@, [key |-> key, kind |-> kind])]
    /\ due' = [due EXCEPT ![a] = Append(@, [key |-> key, kind |-> kind])]
    /\ UNCHANGED <<cb, log, args, gets, qfrom, qstat, rt, frames>>
    /\ UNCHANGED <<heap, stale, arc, pc, cur, res, err, ret, seen, helper, proc, ub>>

\* A remote queryable answers the query of stream g; sent keeps the replies in the
\* order they are received.
peer_answer(g, reply) ==
    /\ proc = "running"
    /\ gets[g].st = "open" /\ gets[g].peers > 0
    /\ gets' = [gets EXCEPT ![g].peers = @ - 1, ![g].q = Append(@, reply), ![g].sent = Append(@, reply)]
    /\ UNCHANGED <<inbox, cb, log, args, due, qfrom, qstat, rt, frames>>
    /\ UNCHANGED <<heap, stale, arc, pc, cur, res, err, ret, seen, helper, proc, ub>>

\* The registration named a was made by the declare call op, the last call of F or
\* its call in progress.
DeclaredBy(a, op) ==
    IF a \in Cells THEN heap[a].live /\ ret["F"] = RetPtr(op, a)
    ELSE a = Early("F") /\ Registered(a, Makes(op)) /\ cur["F"].op = op

\* Thread t is in no call and in no callback.
Resting(t) == pc[t] = "idle" /\ cb[t] = NoCb

\* The operations F registers with, one at a time.
ViewDeclares == {"zenoh_declare_subscriber", "zenoh_liveliness_declare_subscriber", "zenoh_declare_querier"}

\* No event waits for a registration, no callback is in progress, the replies of
\* the last get-style call have been handed over and G has made no get from inside a
\* reply callback.
Quiet ==
    /\ \A a \in Regs : inbox[a] = <<>>
    /\ Resting("G") /\ Resting("W")
    /\ gets[Nested("G")] = NoGet
    /\ \A t \in {"G", "W"} : gets[t].q = <<>> /\ gets[t].peers = 0

\* The threads that make get-style calls: the foreign thread G, outside the execution
\* context, and the engine's thread W, inside it.
GetCallers == {"G", "W"}

\* No thread has made a get-style call.
NoGets == \A u \in GetCallers : gets[u] = NoGet

\* No thread other than t has made a get-style call.
OnlyGetsOf(t) == \A u \in GetCallers \ {t} : gets[u] = NoGet

\* F opens one session and declares, one at a time, a subscriber, a liveliness
\* subscriber or a querier; remote peers publish, announce tokens and answer
\* queries; G calls zenoh_get on the session and zenoh_querier_get on the querier;
\* the engine's thread W runs the subscriber and querier closures, or, on a session
\* without registrations, calls zenoh_get itself in place of G.  On such a session G
\* also calls zenoh_get once from inside the reply callback of its get, when that get
\* has no more replies to come; it is the last get-style call of the run.  The peers
\* publish before the first get-style call.
NextView ==
    \/ (\A a \in Addr : ~heap[a].live) /\ HasRoom(Addr) /\ zenoh_open("F", "ok", "none") /\ UNCHANGED evars
    \/ OpenReturn("F") /\ UNCHANGED evars /\ LowestFirst(Addr)
    \/ \E p \in Addr, op \in ViewDeclares :
          /\ \A a \in Addr : heap[a].live => a = p
          /\ Resting("G") /\ Resting("W") /\ gets["W"] = NoGet /\ gets[Nested("G")] = NoGet
          /\ Honest(op, p) /\ HasRoom(Addr) /\ DeclareCall("F", op, p, "ok", "none") /\ UNCHANGED evars
    \/ DeclareReturn("F") /\ Register("F") /\ LowestFirst(Addr)
    \/ \E eng \in EngineOut : run_blocking("F", eng, FALSE, FALSE) /\ UNCHANGED evars
    \/ \E eng \in EngineOut : run_blocking_local("F", eng, FALSE, FALSE) /\ UNCHANGED evars
    \/ /\ NothingDue /\ NoGets
       /\ \E a \in Regs :
             /\ DeclaredBy(a, "zenoh_declare_subscriber")
             /\ \E sample \in PeerSamples \cup {NulSample} : peer_publish(a, sample)
    \/ /\ NothingDue /\ NoGets
       /\ \E a \in Regs :
             /\ DeclaredBy(a, "zenoh_liveliness_declare_subscriber")
             /\ \E kind \in {"put", "delete"}, key \in {"ok", "nul"} : peer_token(a, key, kind)
    \/ \E a \in Regs : DeclaredBy(a, "zenoh_declare_subscriber") /\ subscriber_callback("W", a)
    \/ \E a \in Regs : DeclaredBy(a, "zenoh_liveliness_declare_subscriber") /\ liveliness_callback("W", a)
    \/ callback_return("W")
    \/ \E t \in GetCallers, p \in Addr :
          /\ pc[t] = "idle" /\ MoreQueries /\ Quiet /\ OnlyGetsOf(t) /\ Honest("zenoh_get", p)
          /\ t = "W" => pc["F"] = "idle" /\ \A a \in Regs : due[a] = <<>> /\ (a \in Addr /\ heap[a].live => a = p)
          /\ zenoh_get(t, p, "ok", "none") /\ Begin(t, "zenoh_get")
    \/ \E p \in Addr :
          /\ ~OwnStream("G") /\ pc["G"] = "idle" /\ gets[Nested("G")] = NoGet
          /\ MoreQueries /\ Exhausted("G") /\ Honest("zenoh_get", p)
          /\ pc["F"] = "idle" /\ \A a \in Regs : due[a] = <<>> /\ (a \in Addr /\ heap[a].live => a = p)
          /\ zenoh_get("G", p, "ok", "none") /\ Begin("G", "zenoh_get")
    \/ \E t \in GetCallers : pc[t] = "pending" /\ \E peers \in 0..2 : (~OwnStream(t) => peers < 2) /\ get_send(t, peers)
    \/ \E g \in GetCallers \cup {Nested("G")} :
          gets[g].peers > 0 /\ \E reply \in Replies : peer_answer(g, reply)
    \/ \E t \in GetCallers : get_reply_enter(t)
    \/ \E t \in GetCallers : get_reply_return(t)
    \/ \E p \in Addr :
          /\ MoreQueries /\ Quiet /\ OnlyGetsOf("G") /\ Honest("zenoh_querier_get", p)
          /\ zenoh_querier_get("G", p, "none") /\ Begin("G", "zenoh_querier_get")
    \/ \E t \in GetCallers, peers \in 0..2, eng \in EngineOut :
          /\ pc[t] = "pending"
          /\ run_blocking_local(t, eng, FALSE, FALSE)
          /\ Completed(t, IF res'[t] = "ok" /\ cur[t].op = "zenoh_querier_get" THEN peers ELSE 0)
    \/ querier_reply_enter("W", "G")
    \/ \E t \in GetCallers : CodeReturn(t) /\ UNCHANGED evars
    \/ \E p \in Addr :
          /\ Resting("G") /\ Resting("W")
          /\ \E op \in {"zenoh_undeclare_subscriber", "zenoh_undeclare_querier"} :
                Honest(op, p) /\ Destroy("F", op, p, "nop", FALSE) /\ Unregister(p)

SpecView == Init /\ [][NextView]_vars

\* What a foreign callback reads through the pointers of its view from the locals f
\* of the closure that called it: the topic string and the payload.
ReadsKey(f) == IF f.key_cstr.live THEN f.key_cstr.text ELSE "freed"
ReadsPayload(f) == IF f.payload.live THEN f.payload.bytes ELSE <<255>>

\* A step takes the next event of a registration, or the next deliverable reply of
\* a get-style call, from the engine.
Takes(g) == gets'[g].st = "open" /\ Len(gets'[g].q) < Len(gets[g].q) /\ Deliverable(Head(gets[g].q))

\* The step takes it on thread t.
Delivers(t) ==
    \/ \E a \in Regs : Registered(a, "SubscriberWrapper")' /\ Len(inbox'[a]) < Len(inbox[a]) /\ cb'[t].reg = a
    \/ \E g \in Streams :
          /\ Takes(g)
          /\ IF gets[g].op = "zenoh_get" THEN g = StreamOf(t) /\ Driver(t) = {t} ELSE t \in Workers

\* The step takes it on the thread spawned for t's zenoh_get.
DeliversOnHelper(t) ==
    Takes(StreamOf(t)) /\ gets[StreamOf(t)].op = "zenoh_get" /\ Driver(t) = {"helper"}

\* The storage f behind the view v is allocated and holds what the view was built
\* from: the topic, and the payload where the view has one.
HoldsView(f, v) ==
    /\ ReadsKey(f) = v.key
    /\ "bytes" \in DOMAIN v => ReadsPayload(f) = v.bytes

\* The callback that runs on thread t, or on the thread spawned for t's call, returns
\* in this step.
Returns(t) == cb[t] # NoCb /\ cb'[t] = NoCb
ReturnsOnHelper(t) == Calling(t) /\ ~Calling(t)'

\* C33: while a foreign callback invocation is in progress the storage behind the
\* topic pointer and the payload pointer of its view is allocated and holds what
\* the view was built from; neither the view nor the storage changes until the
\* callback returns, the storage is released in no step other than the one in which
\* the callback returns, and that step changes nothing else the callback could see;
\* and the callback is entered in the step that takes the event from the engine, on
\* the thread that takes it (a thread of the program, or the thread spawned for a
\* zenoh_get made inside the execution context), never later from a queue.
C33_ViewStorageOutlivesCallback ==
    /\ [](\A t \in Threads :
             /\ cb[t] # NoCb => HoldsView(frames[t], cb[t].view)
             /\ Calling(t) => HoldsView(frames[Spawned(t)], helper[t].view))
    /\ [][\A t \in Threads :
             /\ cb[t] # NoCb /\ ~Returns(t)
                   => cb'[t].view = cb[t].view /\ frames'[t] = frames[t]
             /\ Calling(t) /\ ~ReturnsOnHelper(t)
                   => helper'[t].view = helper[t].view /\ frames'[Spawned(t)] = frames[Spawned(t)]
             /\ frames[t].key_cstr.live /\ ~frames'[t].key_cstr.live => Returns(t)
             /\ frames[Spawned(t)].key_cstr.live /\ ~frames'[Spawned(t)].key_cstr.live
                   => ReturnsOnHelper(t)
             /\ Returns(t) \/ ReturnsOnHelper(t)
                   => UNCHANGED <<heap, inbox, log, due, gets, res, ret>>]_vars
    /\ [][/\ (\E t \in Threads : Delivers(t)) => \E t \in Threads : Delivers(t) /\ cb[t] = NoCb /\ cb'[t] # NoCb
          /\ \A t \in Threads : cb[t] = NoCb /\ cb'[t] # NoCb => Delivers(t)
          /\ \A t \in Threads : DeliversOnHelper(t) <=> ~Calling(t) /\ Calling(t)']_vars

\* A querier-get callback is in progress on the engine's thread with a timestamped
\* view, and the topic and payload storage behind the view is allocated.
C33_Witness ==
    /\ cb["W"] # NoCb /\ cb["W"].reg = 0 /\ gets["G"].op = "zenoh_querier_get"
    /\ cb["W"].view.timestamp_valid /\ frames["W"].payload.live
    /\ ReadsKey(frames["W"]) = "ok"

\* ------------------------------------------------------- C34 (under SpecView)

\* The number whose 16 little-endian bytes are id (identifiers below 2^31).
FromLe(id) == id[1] + 256 * id[2] + 65536 * id[3] + 16777216 * id[4]

\* The view v reports the timestamp of the event e it was built from.
StampOf(v, e) ==
    /\ v.timestamp_valid <=> e.timestamp.some
    /\ Len(v.timestamp.id) = 16
    /\ v.timestamp_valid
          => /\ v.timestamp.time_ntp64 = e.timestamp.time
             /\ FromLe(v.timestamp.id) = e.timestamp.id
             /\ \A i \in 5..16 : v.timestamp.id[i] = 0
    /\ ~v.timestamp_valid
          => /\ v.timestamp.time_ntp64 = <<0, 0>>
             /\ \A i \in 1..16 : v.timestamp.id[i] = 0

\* The events of the registration named a that reach the foreign callback, as they
\* came.
Owed(a) == SelectSeq(due[a], LAMBDA e : Terminable(e.key))

\* The replies of stream g that reach the foreign callback, as received.
Answered(g) == SelectSeq(gets[g].sent, Deliverable)

\* C34: in every view given to a subscriber, get or querier-get callback,
\* timestamp_valid is true exactly when the event carried a timestamp; then the
\* view holds the event's time value and the 16 identifier bytes of its source, and
\* otherwise the time and all identifier bytes are zero.
C34_TimestampValidIffPresent ==
    /\ \A a \in Regs :
          DeclaredBy(a, "zenoh_declare_subscriber")
              => \A i \in 1..Len(log[a]) : StampOf(log[a][i], Owed(a)[i])
    /\ \A g \in Streams :
          gets[g].st # "none" => \A i \in 1..Len(gets[g].got) : StampOf(gets[g].got[i], Answered(g)[i])

\* A subscriber has been given a view with a timestamp, and a get has been given one
\* view without a timestamp and then one with a timestamp.
C34_Witness ==
    /\ \E a \in Addr : DeclaredBy(a, "zenoh_declare_subscriber") /\ Len(log[a]) = 1 /\ log[a][1].timestamp_valid
                          /\ log[a][1].timestamp.id[1] = 2 /\ log[a][1].timestamp.id[2] = 1
    /\ gets["G"].op = "zenoh_get" /\ Len(gets["G"].got) = 2
    /\ ~gets["G"].got[1].timestamp_valid /\ gets["G"].got[2].timestamp_valid

\* ------------------------------------------------------- SpecLoop: the reply loop of zenoh_get

\* The threads that call zenoh_get: the foreign thread G, outside the execution
\* context and from inside the reply callback of its own get, the engine's thread
\* W, inside the context, and the thread spawned for the get of W, from inside the
\* reply callback it runs.
LoopCallers == {"G", "W"}
LoopThreads == LoopCallers \cup {Spawned("W")}

\* No thread other than t has made a get.
LoopOf(t) == \A u \in LoopCallers \ {t} : gets[u] = NoGet /\ gets[Nested(u)] = NoGet

\* F opens one session.  G calls zenoh_get on it, and calls zenoh_get again from
\* inside the reply callback of that get; or W calls zenoh_get.  Remote queryables
\* answer each query with samples, with a sample whose topic holds a NUL byte and
\* with error replies, and the engine may refuse a query.  The reply callback of
\* the get of W, which runs on the thread spawned for that get, calls zenoh_get
\* as well.
NextLoop ==
    \/ (\A a \in Addr : ~heap[a].live) /\ HasRoom(Addr) /\ zenoh_open("F", "ok", "none") /\ UNCHANGED evars
    \/ \E eng \in EngineOut : run_blocking("F", eng, FALSE, FALSE) /\ UNCHANGED evars
    \/ OpenReturn("F") /\ UNCHANGED evars /\ LowestFirst(Addr)
    \/ \E t \in LoopCallers, p \in Addr :
          /\ MoreQueries /\ LoopOf(t) /\ Honest("zenoh_get", p)
          /\ zenoh_get(t, p, "ok", "none") /\ Begin(t, "zenoh_get")
    \/ \E p \in Addr :
          /\ InCallback(Spawned("W")) /\ MoreQueries /\ Honest("zenoh_get", p)
          /\ zenoh_get(Spawned("W"), p, "ok", "none") /\ Begin(Spawned("W"), "zenoh_get")
    \/ \E t \in LoopThreads, peers \in 0..2 : t \in Alive /\ get_send(t, peers)
    \/ \E g \in DOMAIN gets, reply \in Replies : peer_answer(g, reply)
    \/ \E t \in LoopThreads : t \in Alive /\ get_reply_enter(t)
    \/ \E t \in LoopThreads : t \in Alive /\ get_reply_return(t)
    \/ \E t \in LoopThreads, eng \in EngineOut :
          t \in Alive /\ run_blocking_local(t, eng, FALSE, FALSE) /\ Completed(t, 0)
    \/ \E t \in LoopThreads : t \in Alive /\ CodeReturn(t) /\ UNCHANGED evars

SpecLoop == Init /\ [][NextLoop]_vars

\* The replies still queued on stream g that will reach the foreign callback.
Awaited(g) == SelectSeq(gets[g].q, Deliverable)

\* The foreign callback of t's zenoh_get is called in this step: on t, or on the thread
\* spawned for the call.
Invoked(t) ==
    \/ cb[t] = NoCb /\ cb'[t] # NoCb /\ "loop" \notin DOMAIN cb'[t]
    \/ ~Calling(t) /\ Calling(t)'

\* The threads there are before and after the step that have made a get-style call.
LoopNow == {t \in Alive \cap Alive' : StreamOf(t) \in DOMAIN gets}

\* The view that invocation is given.
InvokedWith(t) == IF Calling(t)' THEN helper'[t].view ELSE cb'[t].view

\* C39: in a session get the callback is invoked once for each reply that carries a
\* sample with a usable topic, in the order the replies are received, in the step
\* that takes the reply from the stream; an error reply and a sample whose topic
\* cannot be made a C string cause no invocation and do not end the loop, so that
\* when the call finishes every other reply has been handed over; and the call
\* returns Ok whenever the query was accepted.  This holds for a get made outside the
\* execution context, inside it, and from inside the reply callback of another get.
C39_GetCallbackPerSample ==
    /\ [](\A g \in DOMAIN gets :
             gets[g].op = "zenoh_get" /\ gets[g].st # "none"
                 => Events(gets[g].got) \o Events(Awaited(g)) = Events(Answered(g)))
    /\ [][\A t \in LoopNow :
             LET g == StreamOf(t)
             IN  /\ Invoked(t) <=> Takes(g) /\ cur[t].op = "zenoh_get"
                 /\ Invoked(t) => /\ gets'[g].got = Append(gets[g].got, InvokedWith(t))
                                  /\ InvokedWith(t) = SampleData(Head(gets[g].q))
                 /\ cur[t].op = "zenoh_get" /\ gets[g].st = "open" /\ gets'[g].st = "done"
                       => /\ Events(gets[g].got) = Events(Answered(g))
                          /\ pc'[t] = "ran" /\ res'[t] = "ok"
                 /\ cur[t].op = "zenoh_get" /\ pc[t] = "ran" /\ res[t] = "ok" /\ pc'[t] = "idle"
                       => ret'[t] = RetCode("zenoh_get", Ok)]_vars
    /\ [][\A g \in DOMAIN gets :
             Takes(g) => \E t \in LoopNow : g = StreamOf(t) /\ Invoked(t)]_vars

\* G is inside the reply callback of its get; the get it made from there has received
\* an error reply and then a sample, has invoked the callback once, for the sample,
\* on the thread spawned for the call, and has returned Ok.
C39_Witness ==
    /\ cb["G"] # NoCb /\ "outer" \in DOMAIN cb["G"] /\ cb["G"].outer.cur.op = "zenoh_get"
    /\ gets["G"].st = "open"
    /\ gets[Nested("G")].op = "zenoh_get" /\ gets[Nested("G")].st = "done" /\ pc["G"] = "idle"
    /\ Len(gets[Nested("G")].sent) = 2
    /\ gets[Nested("G")].sent[1].kind = "err" /\ Deliverable(gets[Nested("G")].sent[2])
    /\ Len(gets[Nested("G")].got) = 1 /\ gets[Nested("G")].got[1].key = "ok"
    /\ ret["G"] = RetCode("zenoh_get", Ok)

\* ------------------------------------------------------- SpecCodes: the status of every call

\* enum ZenohError
ZenohError == {Ok, InvalidConfig, SessionClosed, InvalidKeyExpr, PutFailed, NullPointer, Panic, Unknown}

\* The entry points that return a ZenohError.
CodeOps == SessionCodeOps \cup PublisherOps \cup QuerierOps \cup QueryOps

\* The arguments of a call are kept: the handle, the topic or selector, the buffer
\* (call tells a call from the one before it).
RecordCall(t, p, key, pay) ==
    LET before == IF "call" \in DOMAIN args[t] THEN args[t].call ELSE 0
    IN  /\ args' = [args EXCEPT ![t] = [key |-> key, pay |-> pay, query |-> p, call |-> 1 - before]]
        /\ UNCHANGED <<inbox, cb, log, due, gets, qfrom, qstat, rt, frames>>

\* The buffers an entry point can be given.
BuffersOf(op) == IF op \in PutOps \cup QueryOps THEN PayIn ELSE {"null_zero"}

\* The handles F declares, one at a time, next to the session.
CodeDeclares == {"zenoh_declare_publisher", "zenoh_declare_querier", "zenoh_declare_queryable"}

\* F opens one session, declares a publisher, a querier or a queryable, and calls
\* every code-returning entry point with null and valid handles, null, malformed
\* and valid text, and every kind of buffer; the engine may fail any operation and
\* the future may fault; the session-level entry points are called while the
\* session has no declared handle.  Remote peers query the queryable, whose callback
\* on W leaves the query to F.
NextCodes ==
    \/ (\A a \in Addr : ~heap[a].live) /\ HasRoom(Addr) /\ zenoh_open("F", "ok", "none") /\ UNCHANGED evars
    \/ OpenReturn("F") /\ UNCHANGED evars /\ LowestFirst(Addr)
    \/ \E p \in Addr, op \in CodeDeclares :
          /\ \A a \in Addr : heap[a].live => a = p
          /\ Honest(op, p) /\ HasRoom(Addr) /\ DeclareCall("F", op, p, "ok", "none") /\ UNCHANGED evars
    \/ DeclareReturn("F") /\ Register("F") /\ LowestFirst(Addr)
    \/ \E op \in SessionCodeOps, p \in Ptr, key \in KeyIn :
          \E pay \in BuffersOf(op) :
             /\ \A a \in Cells : heap[a].live => heap[a].kind = "SessionWrapper"
             /\ Honest(op, p) /\ SessionCall("F", op, p, key, pay, "none") /\ RecordCall("F", p, key, pay)
    \/ \E op \in PublisherOps \cup QuerierOps, p \in Ptr :
          \E pay \in BuffersOf(op) :
             Honest(op, p) /\ HandleCall("F", op, p, pay, "none") /\ RecordCall("F", p, "ok", pay)
    \/ \E a \in Addr : inbox[a] = <<>> /\ (\A q \in QAddr : ~heap[q].live) /\ peer_query(a)
    \/ \E a \in Regs : queryable_callback("W", a) /\ LowestFirst(QAddr)
    \/ callback_return("W")
    \/ \E q \in {NULL} \cup QAddr, key \in KeyIn, pay \in PayIn :
          /\ cb["W"] = NoCb /\ Honest("zenoh_query_reply", q)
          /\ zenoh_query_reply("F", q, key, pay, "none") /\ Replying("F", q, key, pay)
    \/ \E eng \in EngineOut, fault \in BOOLEAN :
          /\ run_blocking("F", eng, fault, FALSE)
          /\ IF cur["F"].op \in QueryOps THEN Replied("F") ELSE UNCHANGED evars
    \/ \E eng \in EngineOut, fault \in BOOLEAN : run_blocking_local("F", eng, fault, FALSE) /\ UNCHANGED evars
    \/ CodeReturn("F") /\ UNCHANGED evars
    \/ \E q \in QAddr : Honest("zenoh_query_drop", q) /\ zenoh_query_drop("F", q, "nop", FALSE) /\ Dropped(q)
    \/ \E p \in Addr, op \in {"zenoh_undeclare_publisher", "zenoh_undeclare_querier", "zenoh_undeclare_queryable"} :
          /\ inbox[p] = <<>> /\ cb["W"] = NoCb
          /\ Honest(op, p) /\ Destroy("F", op, p, "nop", FALSE) /\ Unregister(p)

SpecCodes == Init /\ [][NextCodes]_vars

\* A required pointer of the call with arguments a is null: the handle, the topic
\* or selector, or the payload of a reply.
NullRequired(op, a) ==
    a.query = NULL \/ a.key = "null" \/ (op \in QueryOps /\ a.pay \in {"null_zero", "null_nonzero"})

\* A buffer pointer is null although its length is not zero, in an entry point that
\* tests for it.
NullBuffer(op, a) == ChecksPayload(op) /\ a.pay = "null_nonzero"

\* C35: a code-returning operation returns only codes of enum ZenohError, by failure
\* class.  A null handle, topic or selector, or reply payload gives NullPointer, also
\* when the text is not UTF-8; text that is not UTF-8 gives InvalidKeyExpr; an
\* engine failure gives PutFailed for the put-style operations and Unknown for
\* delete, publisher-delete, get, querier-get and query-reply; and Ok is returned
\* only when validation passed and the engine operation succeeded.
C35_CodeByFailureClass ==
    /\ [](\A t \in Threads : ret[t].k = "code" => ret[t].v \in ZenohError)
    /\ [][\A t \in Threads :
             /\ pc[t] = "idle" /\ pc'[t] = "idle" /\ args'[t] # args[t] /\ ret'[t].op \in CodeOps
                   => /\ ret'[t].k = "code"
                      /\ ret'[t].v = IF NullRequired(ret'[t].op, args'[t]) \/ NullBuffer(ret'[t].op, args'[t])
                                     THEN NullPointer ELSE InvalidKeyExpr
                      /\ NullRequired(ret'[t].op, args'[t]) \/ NullBuffer(ret'[t].op, args'[t])
                            \/ args'[t].key = "bad_utf8"
             /\ pc[t] = "idle" /\ pc'[t] = "pending" /\ cur'[t].op \in CodeOps
                   => ~NullRequired(cur'[t].op, args'[t]) /\ args'[t].key = "ok"
             /\ pc[t] = "ran" /\ pc'[t] = "idle" /\ cur[t].op \in CodeOps
                   => /\ res[t] = "err" /\ cur[t].op \in PutOps => ret'[t] = RetCode(cur[t].op, PutFailed)
                      /\ res[t] = "err" /\ cur[t].op \notin PutOps => ret'[t] = RetCode(cur[t].op, Unknown)
                      /\ ret'[t] = RetCode(cur[t].op, Ok) <=> res[t] = "ok"]_vars

\* A put has returned PutFailed after the engine refused it, with valid arguments.
C35_Witness ==
    /\ pc["F"] = "idle" /\ ret["F"] = RetCode("zenoh_put_with_encoding", PutFailed)
    /\ args["F"].key = "ok" /\ args["F"].pay = "data" /\ args["F"].query # NULL

\* ------------------------------------------------------- SpecOwned: returned strings

\* The operations that return a string the caller owns.
StringMakers == {"zenoh_query_selector", "zenoh_session_zid"}

\* The strings the caller holds: returned by into_raw and not yet given back.
Strings == {a \in Cells : heap[a].live /\ heap[a].kind = "CString"}

\* A foreign thread F opens a session and declares a queryable; a remote peer sends
\* a query, which the callback on W keeps or answers; F and the callback read the
\* selector of the query, F reads the session's id, frees strings, drops the query
\* and undeclares the queryable.  Every box and string takes the lowest free cell of
\* the whole heap, so a query is boxed where a string or the queryable was before,
\* and the other way round.
NextOwned ==
    \/ (\A a \in Cells : ~heap[a].live) /\ zenoh_open("F", "ok", "none") /\ UNCHANGED evars
    \/ OpenReturn("F") /\ UNCHANGED evars /\ LowestFirst(Cells)
    \/ \E p \in Cells :
          /\ \A a \in Cells : heap[a].live => a = p \/ ret["F"] = RetPtr("zenoh_session_zid", a)
          /\ Honest("zenoh_declare_queryable", p) /\ zenoh_declare_queryable("F", p, "ok", "none") /\ UNCHANGED evars
    \/ run_blocking("F", "ok", FALSE, FALSE) /\ UNCHANGED evars
    \/ run_blocking_local("F", "ok", FALSE, FALSE) /\ UNCHANGED evars
    \/ DeclareReturn("F") /\ Register("F") /\ LowestFirst(Cells)
    \/ \E a \in Cells : qstat.routed = 0 /\ peer_query(a)
    \/ \E a \in Regs : queryable_callback("W", a) /\ LowestFirst(Cells)
    \/ callback_return("W")
    \/ \E q \in Cells, sel \in {"ok", "nul"} :
          /\ InCallback("W") /\ Honest("zenoh_query_selector", q)
          /\ zenoh_query_selector("W", q, sel, "none") /\ UNCHANGED evars /\ LowestFirst(Cells)
    \/ \E q \in Cells \cup {NULL} :
          /\ Honest("zenoh_query_selector", q) /\ q # NULL => Unused(q)
          /\ Strings = {}
          /\ zenoh_query_selector("F", q, "ok", "none") /\ UNCHANGED evars /\ LowestFirst(Cells)
    \/ \E p \in Cells \cup {NULL} :
          Honest("zenoh_session_zid", p) /\ HasRoom(Addr) /\ zenoh_session_zid("F", p, "none") /\ UNCHANGED evars /\ LowestFirst(Cells)
    \/ \E p \in Cells \cup {NULL} :
          Honest("zenoh_free_string", p) /\ zenoh_free_string("F", p, "nop", FALSE) /\ UNCHANGED evars
    \/ \E q \in Cells :
          /\ InCallback("W") /\ Honest("zenoh_query_reply", q) /\ heap[q].kind = "QueryWrapper" /\ Unused(q)
          /\ zenoh_query_reply("W", q, "ok", "data", "none") /\ Replying("W", q, "ok", "data")
    \/ run_blocking("W", "ok", FALSE, FALSE) /\ Replied("W")
    \/ CodeReturn("W") /\ UNCHANGED evars
    \/ \E q \in Cells :
          /\ Honest("zenoh_query_drop", q)
          /\ zenoh_query_drop("F", q, "nop", FALSE) /\ Dropped(q)
    \/ \E p \in Cells :
          /\ inbox[p] = <<>> /\ Honest("zenoh_undeclare_queryable", p)
          /\ zenoh_undeclare_queryable("F", p, "nop", FALSE) /\ Unregister(p)

SpecOwned == Init /\ [][NextOwned]_vars

\* Thread t returns from zenoh_query_selector or zenoh_session_zid in this step: its
\* return value is new, or it is the address returned before, freed since and
\* allocated again by this call.
StringReturns(t) ==
    /\ ret'[t].op \in StringMakers /\ ret'[t].k = "ptr"
    /\ ret'[t] # ret[t] \/ (ret' = ret /\ ret'[t].v \in Strings' \ Strings)

\* C36: zenoh_query_selector and zenoh_session_zid leave the handle they are given as
\* it was: the wrapper, the session's reference count and the accounting of queries
\* are unchanged by the call, so a query read with zenoh_query_selector is still live
\* and still to be answered or dropped once.  A string they return is a new
\* allocation, distinct from every string outstanding, and the set of outstanding
\* strings changes only by one string joining it when one of the two returns it and
\* by one string leaving it when it is passed to zenoh_free_string.
C36_StringOpsBorrowTheirHandle ==
    /\ [](Cardinality(Queries) = qstat.delivered - qstat.consumed)
    /\ [][\A t \in Threads :
            StringReturns(t)
                => /\ \A a \in Cells : heap[a].live => heap'[a] = heap[a]
                   /\ arc' = arc /\ qstat' = qstat /\ qfrom' = qfrom /\ gets' = gets
                   /\ Queries' = Queries
                   /\ IF ret'[t].v = NULL THEN Strings' = Strings
                      ELSE /\ ~heap[ret'[t].v].live
                           /\ Strings' = Strings \cup {ret'[t].v}]_vars
    /\ [][\/ Strings' = Strings
          \/ \E t \in Threads, a \in Cells \ Strings :
                Strings' = Strings \cup {a} /\ StringReturns(t) /\ ret'[t].v = a
          \/ \E t \in Threads, a \in Strings :
                Strings' = Strings \ {a} /\ ret'[t] = RetVoid("zenoh_free_string", a)]_vars

\* Two strings are outstanding, one returned by zenoh_query_selector and one by
\* zenoh_session_zid, and the query whose selector was read is still held by the
\* caller, neither answered nor dropped.
C36_Witness ==
    /\ Cardinality(Strings) = 2
    /\ ret["F"].op = "zenoh_session_zid" /\ ret["F"].v \in Strings
    /\ ret["W"].op = "zenoh_query_selector" /\ ret["W"].v \in Strings
    /\ Cardinality(Queries) = 1 /\ qstat.consumed = 0

\* ------------------------------------------------------- C37 (under Spec)

\* The operations that return a new handle.
CreateOps == {"zenoh_open"} \cup DeclareOps

\* The destroy operation the interface names for the handles of each create.
Destroyer(op) ==
    CASE op = "zenoh_open" -> "zenoh_close"
      [] op \in {"zenoh_declare_publisher", "zenoh_declare_publisher_with_options"} -> "zenoh_undeclare_publisher"
      [] op \in {"zenoh_declare_subscriber", "zenoh_liveliness_declare_subscriber"} -> "zenoh_undeclare_subscriber"
      [] op = "zenoh_declare_queryable" -> "zenoh_undeclare_queryable"
      [] op = "zenoh_declare_querier" -> "zenoh_undeclare_querier"
      [] op = "zenoh_liveliness_declare_token" -> "zenoh_liveliness_undeclare_token"

\* Thread t returns a new handle from a create in this step.
Creates(t) ==
    /\ pc[t] = "ran" /\ pc'[t] = "idle"
    /\ ret'[t].op \in CreateOps /\ ret'[t].k = "ptr" /\ ret'[t].v # NULL

\* Thread t, whose last call was a create that returned a handle, destroys that
\* handle with the create's destroy operation in this step.
DestroysCreated(t) ==
    /\ ret[t].op \in CreateOps /\ ret[t].k = "ptr" /\ ret[t].v # NULL
    /\ ret'[t] = RetVoid(Destroyer(ret[t].op), ret[t].v)

\* C37: for every create operation the destroy operations that reclaim the wrapper
\* type it boxes are exactly one, the one the interface names for it.  A create adds
\* one wrapper of its type at an address that held none and changes no other; the
\* destroy of the handle just created frees that wrapper and changes no other, so
\* that the wrappers after the pair are the wrappers before it.
C37_CreateDestroyPairs ==
    /\ \A op \in CreateOps : {d \in DestroyOps : Target(d) = Makes(op)} = {Destroyer(op)}
    /\ [][\A t \in Threads :
            /\ Creates(t)
                  => /\ heap[ret'[t].v] = FreeCell
                     /\ heap'[ret'[t].v].live /\ heap'[ret'[t].v].kind = Makes(ret'[t].op)
                     /\ heap' = [heap EXCEPT ![ret'[t].v] = heap'[ret'[t].v]]
            /\ DestroysCreated(t)
                  => /\ heap[ret[t].v].live /\ heap[ret[t].v].kind = Makes(ret[t].op)
                     /\ heap' = [heap EXCEPT ![ret[t].v] = FreeCell]]_vars

\* A liveliness token, created while the session was the only wrapper, has been
\* destroyed with zenoh_liveliness_undeclare_token: the session is again the only
\* wrapper.
C37_Witness ==
    \E a \in Addr :
        /\ ret["F"] = RetVoid("zenoh_liveliness_undeclare_token", a)
        /\ heap[a] = FreeCell
        /\ \E s \in Addr : heap[s].live /\ heap[s].kind = "SessionWrapper"
                           /\ \A b \in Addr \ {s} : ~heap[b].live

\* ------------------------------------------------------- SpecClone: the session clone of a declare

\* The declare entry points that take handle.session.clone() before the engine call.
CloneDeclares == {"zenoh_declare_publisher", "zenoh_declare_publisher_with_options",
                  "zenoh_declare_querier"}

\* The addresses the wrappers of this scenario are boxed at: room for the session,
\* a handle declared on it and one more.
Room == Addr \cup {MaxAddr + 1}

\* The reference counts and the wrappers are noted when the call is made (call tells
\* a call from the one before it).
NoteCall(t, key) ==
    LET before == IF "call" \in DOMAIN args[t] THEN args[t].call ELSE 0
    IN  /\ args' = [args EXCEPT ![t] = [key |-> key, pay |-> "none", arc |-> arc, heap |-> heap,
                                        call |-> 1 - before]]
        /\ UNCHANGED <<inbox, cb, log, due, gets, qfrom, qstat, rt, frames>>

\* A foreign thread F opens a session and declares publishers and queriers with null
\* and live session handles and null, malformed and valid topics; the engine may
\* reject a declare and the future may fault.  F undeclares them and closes the
\* session in any order.
NextClone ==
    \/ (\A a \in Cells : ~heap[a].live) /\ HasRoom(Addr) /\ zenoh_open("F", "ok", "none") /\ UNCHANGED evars
    \/ OpenReturn("F") /\ UNCHANGED evars /\ Within(Addr)
    \/ \E op \in CloneDeclares, p \in Ptr, key \in KeyIn :
          Honest(op, p) /\ DeclareCallIn(Room, "F", op, p, key, "none") /\ NoteCall("F", key)
    \/ \E eng \in EngineOut, fault \in BOOLEAN : run_blocking("F", eng, fault, FALSE) /\ UNCHANGED evars
    \/ DeclareReturnIn(Room, "F") /\ UNCHANGED evars
    \/ \E p \in Room, op \in {"zenoh_undeclare_publisher", "zenoh_undeclare_querier", "zenoh_close"} :
          Honest(op, p) /\ Destroy("F", op, p, "nop", FALSE) /\ UNCHANGED evars

SpecClone == Init /\ [][NextClone]_vars

\* The last call of t was a publisher or querier declare that returned no handle.
DeclareFailed(t) == pc[t] = "idle" /\ ret[t].op \in CloneDeclares /\ Failed(ret[t])

\* C38: when zenoh_declare_publisher, zenoh_declare_publisher_with_options or
\* zenoh_declare_querier has failed, on a null or malformed argument, on the
\* engine's refusal or on a fault of the future, every session's reference count
\* is what it was when the call was made and so is every wrapper: no handle was
\* created.  While the call is at the engine the session it was given is held by
\* one reference more, which the failure path gives back.
C38_FailedDeclareReleasesClone ==
    \A t \in Threads :
        /\ DeclareFailed(t) => arc = args[t].arc /\ heap = args[t].heap
        /\ (pc[t] # "idle" /\ cur[t].op \in CloneDeclares)
              => /\ cur[t].arc \in Sess
                 /\ arc = ArcClone(args[t].arc, cur[t].arc)
                 /\ heap = args[t].heap

\* The engine has refused a declare on a session that a publisher made before also
\* holds: the call returned null and left the count at two.
C38_Witness ==
    /\ DeclareFailed("F") /\ args["F"].key = "ok"
    /\ err["F"] = <<FailMsg(ret["F"].op)>>
    /\ \E s \in Sess : arc[s] = 2

\* ------------------------------------------------------- SpecOptions: publisher options

\* What the foreign caller can store in a PublisherOptions: every struct of valid
\* values, and structs that hold in one field a value past an end of its enum or a
\* byte that is no bool.
OptionsIn ==
    [congestion_control : ZenohCongestionControl, priority : ZenohPriority, is_express : 0..1]
        \cup {[PublisherOptions_default EXCEPT !.congestion_control = 2],
               [PublisherOptions_default EXCEPT !.priority = 0],
               [PublisherOptions_default EXCEPT !.priority = 8],
               [PublisherOptions_default EXCEPT !.is_express = 2]}

\* The struct holds a value of each of its field types.
ValidOptions(o) ==
    o.congestion_control \in ZenohCongestionControl /\ o.priority \in ZenohPriority /\ o.is_express \in 0..1

\* The options pointer: null, or the address of a struct.
NullOptions == <<>>
OptionsPtr == {NullOptions} \cup {<<o>> : o \in OptionsIn}

\* let opts = if options.is_null() { zenoh_publisher_options_default() } else { *options }
OptionsOrDefault(options) == IF options = NullOptions THEN PublisherOptions_default ELSE options[1]

\* match opts.congestion_control { .. }: the engine's CongestionControl, by name.
congestion_control(v) == CASE v = Block -> "Block" [] v = Drop -> "Drop"

\* Variant of the priority match in which every arm gives Priority::Data.
priority_AlwaysData(v) == "Data"

\* match opts.priority { .. }: the engine's Priority, by name.
priority(v) ==
    CASE v = RealTime -> "RealTime"
      [] v = InteractiveHigh -> "InteractiveHigh"
      [] v = InteractiveLow -> "InteractiveLow"
      [] v = DataHigh -> "DataHigh"
      [] v = Data -> "Data"
      [] v = DataLow -> "DataLow"
      [] v = Background -> "Background"

\* .express(opts.is_express)
express(v) == v = 1

\* The values the engine's builder can be given.
Builders ==
    [congestion_control : {"Block", "Drop"},
     priority : {"RealTime", "InteractiveHigh", "InteractiveLow", "DataHigh", "Data", "DataLow", "Background"},
     express : BOOLEAN]

\* session.declare_publisher(key).congestion_control(..).priority(..).express(..)
PublisherBuilder(opts) ==
    [congestion_control |-> congestion_control(opts.congestion_control),
     priority |-> priority(opts.priority),
     express |-> express(opts.is_express)]

NoBuilder == [congestion_control |-> "none", priority |-> "none", express |-> FALSE]

\* The call reaches the options: both pointers are non-null and the topic is UTF-8.
ReachesOptions(p, key) == p # NULL /\ key = "ok"

\* The event side of zenoh_declare_publisher_with_options: the options given and the
\* builder the engine is called with are kept.  A struct that holds an invalid
\* discriminant or bool is read all the same: the builder then holds any values.
Building(t, p, key, options) ==
    /\ \E b \in Builders \cup {NoBuilder} :
          /\ IF ~ReachesOptions(p, key) THEN b = NoBuilder
             ELSE IF ValidOptions(OptionsOrDefault(options)) THEN b = PublisherBuilder(OptionsOrDefault(options))
             ELSE b \in Builders
          /\ args' = [args EXCEPT ![t] = [key |-> key, pay |-> "none", query |-> p,
                                          options |-> options, builder |-> b]]
    /\ UNCHANGED <<inbox, cb, log, due, gets, qfrom, qstat, rt, frames>>

\* A foreign thread F opens a session and declares publishers on it with every
\* options struct, valid or not, and, with a null options pointer, with null and
\* malformed arguments; reading an invalid struct can also end the process.  F
\* undeclares the publishers.
NextOptions ==
    \/ (\A a \in Addr : ~heap[a].live) /\ HasRoom(Addr) /\ zenoh_open("F", "ok", "none") /\ UNCHANGED evars
    \/ OpenReturn("F") /\ UNCHANGED evars /\ LowestFirst(Addr)
    \/ zenoh_publisher_options_default("F") /\ UNCHANGED evars
    \/ \E p \in Addr, options \in OptionsPtr :
          /\ Honest("zenoh_declare_publisher_with_options", p)
          /\ HasRoom(Addr) /\ zenoh_declare_publisher_with_options("F", p, "ok", "none")
          /\ Building("F", p, "ok", options)
    \/ \E p \in Ptr, key \in KeyIn :
          /\ Honest("zenoh_declare_publisher_with_options", p)
          /\ HasRoom(Addr) /\ zenoh_declare_publisher_with_options("F", p, key, "none")
          /\ Building("F", p, key, NullOptions)
    \/ \E p \in Addr, options \in OptionsIn :
          /\ Honest("zenoh_declare_publisher_with_options", p) /\ ~ValidOptions(options)
          /\ pc["F"] = "idle" /\ proc = "running"
          /\ Crash("F", "zenoh_declare_publisher_with_options", "invalid_value")
          /\ UNCHANGED evars
    \/ \E eng \in EngineOut : run_blocking("F", eng, FALSE, FALSE) /\ UNCHANGED evars
    \/ DeclareReturn("F") /\ UNCHANGED evars /\ LowestFirst(Addr)
    \/ \E p \in Addr :
          Honest("zenoh_undeclare_publisher", p) /\ zenoh_undeclare_publisher("F", p, "nop", FALSE) /\ UNCHANGED evars

SpecOptions == Init /\ [][NextOptions]_vars

\* The engine's Priority values in the engine's order, highest first.
EnginePriorities ==
    <<"RealTime", "InteractiveHigh", "InteractiveLow", "DataHigh", "Data", "DataLow", "Background">>

\* Thread t has made a zenoh_declare_publisher_with_options call that reached its
\* options.
Declared(t) ==
    /\ "builder" \in DOMAIN args[t]
    /\ ReachesOptions(args[t].query, args[t].key)

\* C40: zenoh_declare_publisher_with_options gives the engine the congestion
\* strategy of the same name as the foreign one, the priority at the same place in
\* the engine's order as the foreign one has among the seven, and the express flag
\* as it was given; distinct foreign values give distinct engine values.  With a
\* null options pointer the engine is given what zenoh_publisher_options_default
\* returns: drop, data, not express.
C40_OptionsMapOneToOne ==
    /\ \A t \in Threads :
          Declared(t) /\ args[t].options # NullOptions /\ ValidOptions(args[t].options[1])
              => /\ args[t].builder.congestion_control
                        = (IF args[t].options[1].congestion_control = Block THEN "Block" ELSE "Drop")
                 /\ args[t].builder.priority = EnginePriorities[args[t].options[1].priority]
                 /\ args[t].builder.express = (args[t].options[1].is_express = 1)
    /\ \A t \in Threads :
          Declared(t) /\ args[t].options = NullOptions
              => /\ args[t].builder = [congestion_control |-> "Drop", priority |-> "Data", express |-> FALSE]
                 /\ args[t].builder = PublisherBuilder(RetOptions("zenoh_publisher_options_default").v)
    /\ \A o1, o2 \in {o \in OptionsIn : ValidOptions(o)} :
          PublisherBuilder(o1) = PublisherBuilder(o2) => o1 = o2

\* A publisher was declared with block, background and express, and the engine was
\* given those.
C40_Witness ==
    /\ Declared("F")
    /\ args["F"].options = <<[congestion_control |-> Block, priority |-> Background, is_express |-> 1]>>
    /\ args["F"].builder = [congestion_control |-> "Block", priority |-> "Background", express |-> TRUE]
    /\ \E a \in Addr : ret["F"] = RetPtr("zenoh_declare_publisher_with_options", a)
                        /\ a # NULL /\ heap[a].kind = "PublisherWrapper"

====
